---- MODULE Spec2Model ----
(***************************************************************************)
(* PlanIT: the ReAct reasoning loop (Backend/agents/react_agent.py), the   *)
(* tool executor (Backend/agents/tools.py), the planner's pipeline         *)
(* (Backend/agents/planner_agent.py), the history of a base agent          *)
(* (Backend/agents/base_agent.py), the session store and the chat endpoint *)
(* (Backend/memory/session_store.py, Backend/api/main.py) and the shared   *)
(* LLM client (Backend/llm_client.py).                                     *)
(*                                                                         *)
(* Text is modelled as a sequence of tokens.  A token is a string that the *)
(* regular expressions of the source treat as a unit: a marker ("TOOL:",   *)
(* "ARGS:" in any letter case), a run of word characters, a white-space    *)
(* character, a brace, the body of an argument block, or punctuation.      *)
(***************************************************************************)
EXTENDS Naturals, Sequences, FiniteSets, TLC

\* ------------------------------------------------------------------------
\* Bounds of the model
\* ------------------------------------------------------------------------

\* How often, within one invocation, the scripted Completion Backend and the
\* tools' environment may change what they answer from one call to the next.
MaxSwitches == 1

\* The longest text, in tokens, the cleaner and the parser are tried on.
MaxTextLen == 4

\* How many calls of get_tools_prompt, and of list_tool_names, are made from
\* outside process.
MaxReaderCalls == 2

\* How many lines the responses the parser is tried on have at most.
MaxLines == 3

\* How many calls of BaseAgent.process one agent receives.
MaxProcessCalls == 3

\* How many half days the clock of the session store advances.
MaxTicks == 3

\* How many session ids are generated.
MaxSessions == 2

\* How many requests the chat endpoint receives.
MaxChats == 1

\* How many request threads call get_client.
MaxThreads == 3

\* ------------------------------------------------------------------------
\* Program constants
\* ------------------------------------------------------------------------

\* a bound one short of the source's
MAX_ITERATIONS_Short == 8 - 1

MAX_ITERATIONS == 8

\* session_store.py line 88
SESSION_TIMEOUT_HOURS == 24

\* ------------------------------------------------------------------------
\* Tokens
\* ------------------------------------------------------------------------

\* re.IGNORECASE: every letter case of the markers matches.
ToolMarkers == {"TOOL:", "tool:"}
ArgsMarkers == {"ARGS:", "args:"}

\* white space in the sense of \s and of str.strip()
Whitespace == {" ", "\n"}

\* runs of word characters (\w+)
Words ==
    {"get_weather", "search_web", "search_knowledge", "calculate_budget",
     "nonexistent_tool", "Sunny", "Done"}

\* bodies of an argument block, the text between "{" and "}"
BodyParis == "\"location\": \"Paris\""
BodyParisSQ == "'location': 'Paris'"
BodyGoa == "\"query\": \"goa\""
BodyGoaSQ == "'query': 'goa'"
BodyDays == "\"destination\": \"Goa\", \"days\": \"three\""
BodyBad == "location: Paris"
BodyApos == "\"query\": \"Rick's cafe\""
BodyAposBroken == "\"query\": \"Rick\"s cafe\""

\* the empty argument mapping, {} in the source
EmptyMap == [k \in {} |-> ""]

\* The bodies that are the members of a JSON object, with the mapping
\* json.loads yields for them.  Values are kept as their JSON text.
\* A JSON value is a pair <<type, text>>.
Str(s) == <<"str", s>>
JsonObjects ==
    [b \in {BodyParis, BodyGoa, BodyDays, BodyApos} |->
        CASE b = BodyParis -> [location |-> Str("Paris")]
          [] b = BodyGoa -> [query |-> Str("goa")]
          [] b = BodyDays -> [destination |-> Str("Goa"), days |-> Str("three")]
          [] b = BodyApos -> [query |-> Str("Rick's cafe")]]

IsToolMarker(t) == t \in ToolMarkers
IsArgsMarker(t) == t \in ArgsMarkers
IsSpace(t) == t \in Whitespace
IsWord(t) == t \in Words

\* The word characters a token starts with: a word is made of them, a
\* marker starts with its letters and goes on with ":".
RECURSIVE WordRun(_, _)
WordRun(s, j) ==
    IF j > Len(s) THEN ""
    ELSE IF IsWord(s[j]) THEN s[j] \o WordRun(s, j + 1)
    ELSE IF s[j] \in {"TOOL:"} THEN "TOOL"
    ELSE IF s[j] \in {"tool:"} THEN "tool"
    ELSE IF s[j] \in {"ARGS:"} THEN "ARGS"
    ELSE IF s[j] \in {"args:"} THEN "args"
    ELSE ""

StartsWithWordChar(t) == IsWord(t) \/ IsToolMarker(t) \/ IsArgsMarker(t)

\* index of the first token at or after j that is not white space
RECURSIVE SkipSpace(_, _)
SkipSpace(s, j) ==
    IF j <= Len(s) /\ IsSpace(s[j]) THEN SkipSpace(s, j + 1) ELSE j

\* ------------------------------------------------------------------------
\* ReActAgent._parse_tool_call
\* ------------------------------------------------------------------------

\* the search without re.IGNORECASE
ToolMatchAt_CaseSensitive(s, i) ==
    /\ s[i] = "TOOL:"
    /\ SkipSpace(s, i + 1) <= Len(s)
    /\ StartsWithWordChar(s[SkipSpace(s, i + 1)])

\* re.search(r'TOOL:\s*(\w+)', response, re.IGNORECASE) succeeds at token i
ToolMatchAt(s, i) ==
    /\ IsToolMarker(s[i])
    /\ SkipSpace(s, i + 1) <= Len(s)
    /\ StartsWithWordChar(s[SkipSpace(s, i + 1)])

\* the rightmost match instead of the leftmost
ToolMatch_Last(s) ==
    IF \E i \in 1..Len(s) : ToolMatchAt(s, i)
    THEN CHOOSE i \in 1..Len(s) :
            /\ ToolMatchAt(s, i)
            /\ \A k \in (i + 1)..Len(s) : ~ToolMatchAt(s, k)
    ELSE 0

\* the leftmost match, 0 when there is none
ToolMatch(s) ==
    IF \E i \in 1..Len(s) : ToolMatchAt(s, i)
    THEN CHOOSE i \in 1..Len(s) :
            /\ ToolMatchAt(s, i)
            /\ \A k \in 1..(i - 1) : ~ToolMatchAt(s, k)
    ELSE 0

\* index of the first "}" at or after j, 0 when there is none
RECURSIVE FirstClose(_, _)
FirstClose(s, j) ==
    IF j > Len(s) THEN 0
    ELSE IF s[j] = "}" THEN j
    ELSE FirstClose(s, j + 1)

\* re.search(r'ARGS:\s*(\{[^}]+\})', response, IGNORECASE | DOTALL) succeeds at i
ArgsMatchAt(s, i) ==
    /\ IsArgsMarker(s[i])
    /\ SkipSpace(s, i + 1) <= Len(s)
    /\ s[SkipSpace(s, i + 1)] = "{"
    /\ FirstClose(s, SkipSpace(s, i + 1)) > SkipSpace(s, i + 1) + 1

ArgsMatch(s) ==
    IF \E i \in 1..Len(s) : ArgsMatchAt(s, i)
    THEN CHOOSE i \in 1..Len(s) :
            /\ ArgsMatchAt(s, i)
            /\ \A k \in 1..(i - 1) : ~ArgsMatchAt(s, k)
    ELSE 0

\* args_match.group(1): from the "{" to the first "}"
ArgsGroup(s) ==
    SubSeq(s, SkipSpace(s, ArgsMatch(s) + 1),
           FirstClose(s, SkipSpace(s, ArgsMatch(s) + 1)))

\* args_str.replace("'", '"') on one token
ReplaceQuoteToken(t) ==
    CASE t = BodyParisSQ -> BodyParis
      [] t = BodyGoaSQ -> BodyGoa
      [] t = BodyApos -> BodyAposBroken
      [] OTHER -> t

ReplaceQuotes(s) == [i \in 1..Len(s) |-> ReplaceQuoteToken(s[i])]

\* the tokens of s that are not white space
RECURSIVE DropSpace(_)
DropSpace(s) ==
    IF s = <<>> THEN <<>>
    ELSE IF IsSpace(Head(s)) THEN DropSpace(Tail(s))
    ELSE <<Head(s)>> \o DropSpace(Tail(s))

\* json.loads on a text that starts with "{" and ends with "}":
\* ok = FALSE stands for json.JSONDecodeError.
json_loads(s) ==
    LET inner == DropSpace(SubSeq(s, 2, Len(s) - 1)) IN
    IF inner = <<>> THEN [ok |-> TRUE, value |-> EmptyMap]
    ELSE IF Len(inner) = 1 /\ inner[1] \in DOMAIN JsonObjects
         THEN [ok |-> TRUE, value |-> JsonObjects[inner[1]]]
    ELSE [ok |-> FALSE, value |-> EmptyMap]

\* the value None of Optional[Dict]
NoToolCall == [found |-> FALSE, name |-> "", arguments |-> EmptyMap]

\* a strict parser: no tool call unless the argument block parses
_parse_tool_call_Strict(response) ==
    IF ToolMatch(response) # 0 /\ ArgsMatch(response) # 0
       /\ json_loads(ReplaceQuotes(ArgsGroup(response))).ok
    THEN [found |-> TRUE,
          name |-> WordRun(response, SkipSpace(response, ToolMatch(response) + 1)),
          arguments |-> json_loads(ReplaceQuotes(ArgsGroup(response))).value]
    ELSE [found |-> FALSE, name |-> "", arguments |-> EmptyMap]

\* an argument block on its own counts as a call of a tool with no name
_parse_tool_call_NamelessCall(response) ==
    IF ToolMatch(response) # 0
    THEN [found |-> TRUE,
          name |-> WordRun(response, SkipSpace(response, ToolMatch(response) + 1)),
          arguments |->
              IF ArgsMatch(response) # 0
                 /\ json_loads(ReplaceQuotes(ArgsGroup(response))).ok
              THEN json_loads(ReplaceQuotes(ArgsGroup(response))).value
              ELSE EmptyMap]
    ELSE IF ArgsMatch(response) # 0
    THEN [found |-> TRUE, name |-> "", arguments |-> EmptyMap]
    ELSE NoToolCall

_parse_tool_call(response) ==
    IF ToolMatch(response) # 0
    THEN [found |-> TRUE,
          name |-> WordRun(response, SkipSpace(response, ToolMatch(response) + 1)),
          arguments |->
              IF ArgsMatch(response) # 0
                 /\ json_loads(ReplaceQuotes(ArgsGroup(response))).ok
              THEN json_loads(ReplaceQuotes(ArgsGroup(response))).value
              ELSE EmptyMap]
    ELSE NoToolCall

\* ------------------------------------------------------------------------
\* ReActAgent._clean_response
\* ------------------------------------------------------------------------

\* response.split('\n')
RECURSIVE SplitLines(_)
SplitLines(s) ==
    IF \E i \in 1..Len(s) : s[i] = "\n"
    THEN LET i == CHOOSE i \in 1..Len(s) :
                    s[i] = "\n" /\ \A k \in 1..(i - 1) : s[k] # "\n"
         IN <<SubSeq(s, 1, i - 1)>> \o SplitLines(SubSeq(s, i + 1, Len(s)))
    ELSE <<s>>

\* the pattern without its leading \s*: r'^TOOL:\s*'
LineIsTool_NoLeadingSpace(line) ==
    line # <<>> /\ IsToolMarker(line[1])

\* re.match(r'^\s*TOOL:\s*', line, re.IGNORECASE)
LineIsTool(line) ==
    SkipSpace(line, 1) <= Len(line) /\ IsToolMarker(line[SkipSpace(line, 1)])

\* the pattern without its leading \s*: r'^ARGS:\s*'
LineIsArgs_NoLeadingSpace(line) ==
    line # <<>> /\ IsArgsMarker(line[1])

\* re.match(r'^\s*ARGS:\s*', line, re.IGNORECASE)
LineIsArgs(line) ==
    SkipSpace(line, 1) <= Len(line) /\ IsArgsMarker(line[SkipSpace(line, 1)])

\* line.strip().startswith('{')
LineStartsBrace(line) ==
    SkipSpace(line, 1) <= Len(line) /\ line[SkipSpace(line, 1)] = "{"

\* the for loop over the lines, with its skip_next flag
RECURSIVE CleanLines(_, _)
CleanLines(lines, skip_next) ==
    IF lines = <<>> THEN <<>>
    ELSE IF LineIsTool(Head(lines)) THEN CleanLines(Tail(lines), TRUE)
    ELSE IF LineIsArgs(Head(lines)) THEN CleanLines(Tail(lines), skip_next)
    ELSE IF skip_next /\ LineStartsBrace(Head(lines))
         THEN CleanLines(Tail(lines), FALSE)
    ELSE <<Head(lines)>> \o CleanLines(Tail(lines), FALSE)

\* '\n'.join(lines)
RECURSIVE JoinLines(_)
JoinLines(lines) ==
    IF lines = <<>> THEN <<>>
    ELSE IF Len(lines) = 1 THEN lines[1]
    ELSE lines[1] \o <<"\n">> \o JoinLines(Tail(lines))

\* str.strip()
RECURSIVE StripLeft(_)
StripLeft(s) ==
    IF s # <<>> /\ IsSpace(Head(s)) THEN StripLeft(Tail(s)) ELSE s

RECURSIVE StripRight(_)
StripRight(s) ==
    IF s # <<>> /\ IsSpace(s[Len(s)])
    THEN StripRight(SubSeq(s, 1, Len(s) - 1))
    ELSE s

Strip(s) == StripRight(StripLeft(s))

\* the cleaner without the final .strip()
_clean_response_NoStrip(response) ==
    JoinLines(CleanLines(SplitLines(response), FALSE))

_clean_response(response) ==
    Strip(JoinLines(CleanLines(SplitLines(response), FALSE)))

\* ------------------------------------------------------------------------
\* Tool registry and tool implementations (agents/tools.py, mcp/server.py)
\* ------------------------------------------------------------------------

\* ToolDef: one entry of TOOL_DEFINITIONS, with the names of its
\* parameters["properties"] in their order and its parameters["required"]
ToolDef(name, parameters, required) ==
    [name |-> name, parameters |-> parameters, required |-> required]

\* lines 24-188, in order
TOOL_DEFINITIONS ==
    <<ToolDef("search_destinations", <<"query", "budget", "travel_style">>,
              {"query"}),
      ToolDef("get_weather", <<"location", "date">>, {"location"}),
      ToolDef("calculate_budget",
              <<"destination", "days", "travelers", "travel_style", "currency">>,
              {"destination", "days"}),
      ToolDef("get_attractions", <<"destination", "category">>, {"destination"}),
      ToolDef("search_knowledge", <<"query">>, {"query"}),
      ToolDef("create_itinerary", <<"destination", "days", "budget">>,
              {"destination", "days"}),
      ToolDef("get_local_tips", <<"destination", "tip_type">>, {"destination"}),
      ToolDef("search_web", <<"query">>, {"query"})>>

\* get_tools_prompt, lines 312-323: one entry per tool of the list, in the
\* order of the list, with the tool's name and its parameters in the order
\* of its "properties"
get_tools_prompt(defs) ==
    [i \in 1..Len(defs) |->
        [tool |-> defs[i].name, parameters |-> defs[i].parameters]]

\* list_tool_names, lines 326-328: [t["name"] for t in TOOL_DEFINITIONS]
list_tool_names(defs) == [i \in 1..Len(defs) |-> defs[i].name]

\* the set of the names of TOOL_DEFINITIONS
RegisteredNames == {TOOL_DEFINITIONS[i].name : i \in 1..Len(TOOL_DEFINITIONS)}

\* the "required" list the schema declares for a registered tool
RequiredOf(tool_name) ==
    TOOL_DEFINITIONS[CHOOSE i \in 1..Len(TOOL_DEFINITIONS) :
                        TOOL_DEFINITIONS[i].name = tool_name].required

\* JSON values other than strings
Null == <<"null", "null">>
Int(n) == <<"int", n>>
List(x) == <<"list", x>>
\* a value the json module cannot serialize (numpy.float32, an object, ...)
NotJson(x) == <<"float32", x>>

IsStr(v) == v[1] = "str"
IsNumber(v) == v[1] = "int"
JsonTypes == {"str", "int", "null", "list"}

\* arguments.get(key, default)
Get(arguments, key, default) ==
    IF key \in DOMAIN arguments THEN arguments[key] ELSE default

\* What the collaborators outside the repository do during one tool call:
\* answer, answer with nothing, raise (network error, timeout, missing
\* dependency), or answer with a value that is not a JSON value.
Env == {"ok", "empty", "raises", "unserializable"}

\* the outcome of a callee: a returned mapping, or a raised exception
Returned(v) == [raised |-> FALSE, value |-> v, message |-> ""]
Raised(msg) == [raised |-> TRUE, value |-> EmptyMap, message |-> msg]

search_destinations(query, budget, travel_style) ==
    IF ~IsStr(query)
    THEN Raised("object has no attribute 'lower'")
    ELSE Returned([query |-> query, budget_level |-> budget,
                   results |-> List("destinations"),
                   total_found |-> Int("n")])

get_weather_forecast(location, date) ==
    Returned([location |-> location,
              date |-> IF date = Null THEN Str("today") ELSE date,
              condition |-> Str("Sunny"),
              recommendation |-> Str("Good weather for sightseeing")])

calculate_trip_budget(destination, days, travelers, travel_style, currency) ==
    IF ~IsStr(destination) THEN Raised("object has no attribute 'lower'")
    ELSE IF ~IsStr(currency) THEN Raised("object has no attribute 'upper'")
    ELSE IF ~IsNumber(days) \/ ~IsNumber(travelers)
         THEN Raised("can't multiply sequence by non-int of type 'float'")
    ELSE Returned([destination |-> destination, days |-> days,
                   travelers |-> travelers, travel_style |-> travel_style,
                   total_estimate |-> Str("total"), currency |-> currency])

get_local_attractions(destination, category) ==
    IF ~IsStr(destination)
    THEN Raised("object has no attribute 'lower'")
    ELSE Returned([destination |-> destination, category |-> category,
                   attractions |-> List("attractions")])

\* rag.retrieve(query, k=3) behind get_rag_pipeline()
rag_retrieve(query, env) ==
    CASE env = "raises" -> Raised("No module named 'chromadb'")
      [] env = "unserializable" -> Returned([results |-> NotJson("score")])
      [] OTHER -> Returned([results |-> List("documents")])

quick_itinerary(destination, days) ==
    IF ~IsStr(destination) THEN Raised("object has no attribute 'lower'")
    ELSE IF ~IsNumber(days)
         THEN Raised("can only concatenate str (not \"int\") to str")
    ELSE Returned([destination |-> destination, days |-> days,
                   daily_plans |-> List("plans")])

expert_tips(destination, tip_type) ==
    IF ~IsStr(destination) THEN Raised("object has no attribute 'lower'")
    ELSE Returned([destination |-> destination, tips |-> List(tip_type[2])])

\* search_web catches every exception of the search itself
search_web(query, env) ==
    CASE env = "raises" ->
            Returned([error |->
                Str("Web search currently unavailable. Please try again later.")])
      [] env = "empty" -> Returned([error |-> Str("No results found.")])
      [] OTHER -> Returned([query |-> query, results |-> List("hits"),
                            source |-> Str("web_search")])

\* a registry lookup that raises KeyError on a name it does not hold
Dispatch_KeyError(tool_name, arguments, env) ==
    IF tool_name \in RegisteredNames
    THEN Returned([query |-> Get(arguments, "query", Str(""))])
    ELSE Raised("KeyError: " \o tool_name)

\* the chain of branches without the one for search_web
Dispatch_NoSearchWeb(tool_name, arguments, env) ==
    CASE tool_name = "search_destinations" ->
            search_destinations(Get(arguments, "query", Str("")),
                                Get(arguments, "budget", Str("moderate")),
                                Get(arguments, "travel_style", Null))
      [] tool_name = "get_weather" ->
            get_weather_forecast(Get(arguments, "location", Str("")),
                                 Get(arguments, "date", Null))
      [] tool_name = "calculate_budget" ->
            calculate_trip_budget(Get(arguments, "destination", Str("")),
                                  Get(arguments, "days", Int("1")),
                                  Get(arguments, "travelers", Int("1")),
                                  Get(arguments, "travel_style", Str("moderate")),
                                  Get(arguments, "currency", Str("USD")))
      [] tool_name = "get_attractions" ->
            get_local_attractions(Get(arguments, "destination", Str("")),
                                  Get(arguments, "category", Str("all")))
      [] tool_name = "search_knowledge" ->
            IF rag_retrieve(Get(arguments, "query", Str("")), env).raised
            THEN Returned([error |-> Str("Knowledge search unavailable: "
                    \o rag_retrieve(Get(arguments, "query", Str("")), env).message)])
            ELSE Returned([query |-> Get(arguments, "query", Null),
                           results |->
                    rag_retrieve(Get(arguments, "query", Str("")), env).value.results])
      [] tool_name = "create_itinerary" ->
            quick_itinerary(Get(arguments, "destination", Str("")),
                            Get(arguments, "days", Int("3")))
      [] tool_name = "get_local_tips" ->
            expert_tips(Get(arguments, "destination", Str("")),
                        Get(arguments, "tip_type", Str("all")))
      [] OTHER ->
            Returned([error |-> Str("Unknown tool: " \o tool_name)])

\* the body of the try block of execute_tool
Dispatch(tool_name, arguments, env) ==
    CASE tool_name = "search_destinations" ->
            search_destinations(Get(arguments, "query", Str("")),
                                Get(arguments, "budget", Str("moderate")),
                                Get(arguments, "travel_style", Null))
      [] tool_name = "get_weather" ->
            get_weather_forecast(Get(arguments, "location", Str("")),
                                 Get(arguments, "date", Null))
      [] tool_name = "calculate_budget" ->
            calculate_trip_budget(Get(arguments, "destination", Str("")),
                                  Get(arguments, "days", Int("1")),
                                  Get(arguments, "travelers", Int("1")),
                                  Get(arguments, "travel_style", Str("moderate")),
                                  Get(arguments, "currency", Str("USD")))
      [] tool_name = "get_attractions" ->
            get_local_attractions(Get(arguments, "destination", Str("")),
                                  Get(arguments, "category", Str("all")))
      [] tool_name = "search_knowledge" ->
            IF rag_retrieve(Get(arguments, "query", Str("")), env).raised
            THEN Returned([error |-> Str("Knowledge search unavailable: "
                    \o rag_retrieve(Get(arguments, "query", Str("")), env).message)])
            ELSE Returned([query |-> Get(arguments, "query", Null),
                           results |->
                    rag_retrieve(Get(arguments, "query", Str("")), env).value.results])
      [] tool_name = "create_itinerary" ->
            quick_itinerary(Get(arguments, "destination", Str("")),
                            Get(arguments, "days", Int("3")))
      [] tool_name = "get_local_tips" ->
            expert_tips(Get(arguments, "destination", Str("")),
                        Get(arguments, "tip_type", Str("all")))
      [] tool_name = "search_web" ->
            search_web(Get(arguments, "query", Str("")), env)
      [] OTHER ->
            Returned([error |-> Str("Unknown tool: " \o tool_name)])

\* execute_tool without its try/except
execute_tool_NoCatch(tool_name, arguments, env) ==
    Dispatch(tool_name, arguments, env)

\* execute_tool: the dispatch inside try, and except Exception around it
execute_tool(tool_name, arguments, env) ==
    IF Dispatch(tool_name, arguments, env).raised
    THEN Returned([error |-> Str(Dispatch(tool_name, arguments, env).message)])
    ELSE Dispatch(tool_name, arguments, env)

\* the environments that make a difference to a tool
EnvFor(tool_name) ==
    CASE tool_name = "search_web" -> {"ok", "empty", "raises"}
      [] tool_name = "search_knowledge" -> {"ok", "raises", "unserializable"}
      [] OTHER -> {"ok"}

\* ------------------------------------------------------------------------
\* json.dumps
\* ------------------------------------------------------------------------

\* json.dumps raises TypeError on a mapping that holds a non-JSON value
Serializable(m) == \A k \in DOMAIN m : m[k][1] \in JsonTypes

\* the member text json.dumps writes for a mapping read by json.loads
DumpBody(m) ==
    IF \E b \in DOMAIN JsonObjects : JsonObjects[b] = m
    THEN <<CHOOSE b \in DOMAIN JsonObjects : JsonObjects[b] = m>>
    ELSE <<>>

\* str(tool_args): the Python text of the dict, with single quotes
json_dumps_Repr(m) ==
    <<"{">> \o [i \in 1..Len(DumpBody(m)) |->
                  CASE DumpBody(m)[i] = BodyParis -> BodyParisSQ
                    [] DumpBody(m)[i] = BodyGoa -> BodyGoaSQ
                    [] OTHER -> "'destination': 'Goa', 'days': 'three'"]
          \o <<"}">>

\* json.dumps(tool_args)
json_dumps(m) == <<"{">> \o DumpBody(m) \o <<"}">>

\* json.dumps(result, indent=2): the text that denotes the mapping
json_dumps_indent(m) == <<[json |-> m]>>

\* ------------------------------------------------------------------------
\* Scripted Completion Backend: the responses it may give
\* ------------------------------------------------------------------------

ArgsBlock(body) == <<"ARGS:", " ", "{", body, "}">>

\* plain answers
RPlain == <<"Sunny", ".">>
RPadded == <<" ", "Done", ".", "\n">>
\* no tool name, but lines of tool-call syntax
RArgsOnly == <<"Done", ".", "\n">> \o ArgsBlock(BodyParis)
RToolNoName == <<"TOOL:", " ", ".", "\n", "Sunny", ".">>
\* tool calls
RWeather ==
    <<"Sunny", ".", "\n", "TOOL:", " ", "get_weather", "\n">> \o ArgsBlock(BodyParis)
RWeatherSQ == <<"TOOL:", " ", "get_weather", "\n">> \o ArgsBlock(BodyParisSQ)
RWeatherBad == <<"TOOL:", " ", "get_weather", "\n">> \o ArgsBlock(BodyBad)
RWeatherNoArgs == <<"TOOL:", " ", "get_weather">>
RUnknown == <<"TOOL:", " ", "nonexistent_tool", "\n">> \o ArgsBlock(BodyGoa)
RSearch == <<"tool:", " ", "search_web", "\n", "args:", " ", "{", BodyGoaSQ, "}">>
RKnowledge == <<"TOOL:", " ", "search_knowledge", "\n">> \o ArgsBlock(BodyGoa)
RBudget == <<"TOOL:", " ", "calculate_budget", "\n">> \o ArgsBlock(BodyDays)
\* "ARGS: {}": the pattern wants at least one character between the braces
RKnowledgeEmpty ==
    <<"TOOL:", " ", "search_knowledge", "\n", "ARGS:", " ", "{", "}">>

\* two tool calls in one response
RTwoTools ==
    <<"TOOL:", " ", "get_weather", "\n">> \o ArgsBlock(BodyParis)
        \o <<"\n", "TOOL:", " ", "search_web", "\n">> \o ArgsBlock(BodyGoa)

Responses ==
    {RPlain, RPadded, RArgsOnly, RToolNoName, RWeather, RWeatherSQ,
     RWeatherBad, RWeatherNoArgs, RUnknown, RSearch, RKnowledge, RBudget,
     RKnowledgeEmpty, RTwoTools}

UserMessages == {"Plan a trip to Paris", "Weather in Goa?"}

\* what the parser and the cleaner make of each response of the script
ParseOf == [r \in Responses |-> _parse_tool_call(r)]
CleanOf == [r \in Responses |-> _clean_response(r)]

\* ------------------------------------------------------------------------
\* State
\* ------------------------------------------------------------------------

VARIABLES
    conversation_history,  \* ReActAgent.conversation_history
    pc,                    \* where the invocation of process stands
    user_message,          \* the argument of process
    tool_calls,            \* local tool_calls
    iterations,            \* local iterations
    accumulated_context,   \* local accumulated_context, as a list of lines
    prompt,                \* the content of the message of the pending call
    result,                \* the value process returned
    exception,             \* the exception process raised
    responses,             \* the responses the backend gave, in order
    llm_calls,             \* the number of self.llm.chat calls issued
    executed,              \* the calls of execute_tool, in order
    last_env,              \* the environment of the latest tool call
    switches,              \* how often the script changed its answer
    system_prompt          \* the tools part of self.system_prompt, as last built

\* The pure functions of the agent, applied to a text on its own
VARIABLES
    text,                  \* a response text
    clean_out,             \* the results of _clean_response, applied in turn
    parse_out              \* what _parse_tool_call found before and after

\* Invocations of process that run interleaved
VARIABLES
    frames,                \* the locals and the position of each invocation
    agent_of,              \* the ReActAgent each invocation is called on
    histories              \* conversation_history of each ReActAgent

\* The module state of agents/tools.py and the calls of its readers
VARIABLES
    registry,              \* the list TOOL_DEFINITIONS
    described,             \* what the calls of get_tools_prompt returned
    listed                 \* what the calls of list_tool_names returned

\* _parse_tool_call applied to a response on its own
VARIABLES
    parsed                 \* what _parse_tool_call returned for text

\* One call of PlannerAgent.create_plan
VARIABLES
    plan_pc,               \* where the call of create_plan stands
    plan_message,          \* the argument user_message
    existing_preferences,  \* the argument existing_preferences
    preferences,           \* local preferences
    plan,                  \* local result, the plan under construction
    plan_steps,            \* the calls create_plan made, in order
    plan_returned,         \* the value create_plan returned
    plan_exception         \* the exception create_plan raised

\* One agent under BaseAgent.process
VARIABLES
    _conversation_history, \* BaseAgent._conversation_history
    base_calls             \* the calls of BaseAgent.process, in order of start

\* The session store and the chat endpoint of api/main.py
VARIABLES
    _sessions,             \* SessionStore._sessions
    now,                   \* datetime.now(), in hours
    issued,                \* how many session ids uuid4 has generated
    removed,               \* the ids deleted from the store so far
    last_call,             \* the latest call of the store, with what it returned
    chats                  \* the chat requests that reached the planner, in order

\* The module state of llm_client.py and the threads calling get_client
VARIABLES
    _llm_client,           \* the global _llm_client
    instances,             \* how many clients get_llm_client has created
    threads                \* where each thread stands in get_client

clean_vars == <<text, clean_out, parse_out, parsed>>
base_vars == <<_conversation_history, base_calls>>
session_vars ==
    <<_sessions, now, issued, removed, last_call, chats>>
client_vars == <<_llm_client, instances, threads>>

\* the state of the services around the agents
service_vars == <<base_vars, session_vars, client_vars>>
planner_vars ==
    <<plan_pc, plan_message, existing_preferences, preferences, plan,
      plan_steps, plan_returned, plan_exception>>
concurrent_vars == <<frames, agent_of, histories>>
registry_vars == <<registry, described, listed>>

\* the state outside the invocation of process
outside_process ==
    <<clean_vars, concurrent_vars, registry_vars, planner_vars, service_vars>>

\* the state of the agent and of its invocation of process
inside_process ==
    <<conversation_history, pc, user_message, tool_calls, iterations,
      accumulated_context, prompt, result, exception, responses, llm_calls,
      executed, last_env, switches, system_prompt>>

vars == <<inside_process, outside_process>>

Line(label, body) == [label |-> label, body |-> body]

NoResult == [response |-> <<"(no result)">>]
NoException == "None"

\* the instruction lines are added to every prompt, the first included
BuildPrompt_Always(context, calls) ==
    context \o
    <<Line("Based on the information gathered, continue helping the user.", <<>>),
      Line("If you have enough information, provide your FINAL ANSWER.", <<>>),
      Line("If you need more information, call another tool.", <<>>)>>

\* lines 89-93: the prompt of one iteration
BuildPrompt(context, calls) ==
    IF calls # <<>>
    THEN context \o
         <<Line("Based on the information gathered, continue helping the user.", <<>>),
           Line("If you have enough information, provide your FINAL ANSWER.", <<>>),
           Line("If you need more information, call another tool.", <<>>)>>
    ELSE context

\* line 140: the prompt of the forced final call
FinalPrompt(context) ==
    context \o <<Line("Please provide your final answer now.", <<>>)>>

\* error results are left out of the context
ToolBlock_OmitErrors(tool_name, tool_args, tool_result) ==
    IF "error" \in DOMAIN tool_result THEN <<>>
    ELSE <<Line("--- Tool Call ---", <<>>),
           Line("Tool: ", <<tool_name>>),
           Line("Arguments: ", json_dumps(tool_args)),
           Line("Result: ", json_dumps_indent(tool_result)),
           Line("--- End Tool Call ---", <<>>)>>

\* lines 117-121: the block of one tool call
ToolBlock(tool_name, tool_args, tool_result) ==
    <<Line("--- Tool Call ---", <<>>),
      Line("Tool: ", <<tool_name>>),
      Line("Arguments: ", json_dumps(tool_args)),
      Line("Result: ", json_dumps_indent(tool_result)),
      Line("--- End Tool Call ---", <<>>)>>

\* lines 117-119: what is appended before json.dumps(result) raises
PartialToolBlock(tool_name, tool_args) ==
    <<Line("--- Tool Call ---", <<>>),
      Line("Tool: ", <<tool_name>>),
      Line("Arguments: ", json_dumps(tool_args))>>

\* no invocation of process has begun
ProcessIdle ==
    /\ conversation_history = <<>>
    /\ pc = "idle"
    /\ user_message = ""
    /\ tool_calls = <<>>
    /\ iterations = 0
    /\ accumulated_context = <<>>
    /\ prompt = <<>>
    /\ result = NoResult
    /\ exception = NoException
    /\ responses = <<>>
    /\ llm_calls = 0
    /\ executed = <<>>
    /\ last_env = "ok"
    /\ switches = 0
    /\ system_prompt = <<>>

\* no text is under the cleaner
NoText ==
    /\ text = <<>>
    /\ clean_out = <<>>
    /\ parse_out = <<>>
    /\ parsed = <<>>

\* the two invocations that run interleaved, and the agents they may use
Invocations == {1, 2}
Agents == {1, 2}

\* the locals of an invocation that has not begun; script holds the
\* answers its backend and its tools' environment are going to give
FrameIdle ==
    [pc |-> "idle", user_message |-> "", tool_calls |-> <<>>, iterations |-> 0,
     accumulated_context |-> <<>>, prompt |-> <<>>, result |-> NoResult,
     exception |-> NoException, answered |-> 0, script |-> <<>>]

\* no interleaved invocation has begun
NoInvocations ==
    /\ frames = [k \in Invocations |-> FrameIdle]
    /\ agent_of = [k \in Invocations |-> 1]
    /\ histories = [a \in Agents |-> <<>>]

\* agents/tools.py is loaded
RegistryLoaded ==
    /\ registry = TOOL_DEFINITIONS
    /\ described = <<>>
    /\ listed = <<>>

\* the value None of Optional[Dict[str, Any]]
NotSupplied == [none |-> Null]

\* lines 61-66: the plan before any step has filled it in
EmptyPlan ==
    [preferences |-> EmptyMap, budget_analysis |-> EmptyMap,
     locations |-> <<>>, itinerary |-> <<>>]

NoPlan == [none |-> Null]

\* create_plan has not been called
PlannerIdle ==
    /\ plan_pc = "idle"
    /\ plan_message = ""
    /\ existing_preferences = NotSupplied
    /\ preferences = EmptyMap
    /\ plan = EmptyPlan
    /\ plan_steps = <<>>
    /\ plan_returned = NoPlan
    /\ plan_exception = NoException

\* base_agent.py line 24: a new agent has an empty history
NoHistory ==
    /\ _conversation_history = <<>>
    /\ base_calls = <<>>

\* session_store.py lines 90-91: a new store holds no session
EmptyStore == [i \in {} |-> Null]

\* no call of the store has been made
NoCall ==
    [op |-> "none", requested |-> <<>>, returned |-> <<>>,
     before |-> EmptyStore, after |-> EmptyStore, at |-> 0]

NoSessions ==
    /\ _sessions = EmptyStore
    /\ now = 0
    /\ issued = 0
    /\ removed = {}
    /\ last_call = NoCall
    /\ chats = <<>>

\* the threads that construct agents; every constructor calls get_client
Threads == 1..MaxThreads

\* a thread that has not entered get_client
ThreadIdle == [pc |-> "idle", made |-> 0, got |-> 0]

\* llm_client.py line 295: the global starts as None, written 0 here
NoClient ==
    /\ _llm_client = 0
    /\ instances = 0
    /\ threads = [t \in Threads |-> ThreadIdle]

ServicesIdle == NoHistory /\ NoSessions /\ NoClient

Init ==
    /\ ProcessIdle /\ NoText /\ NoInvocations /\ RegistryLoaded /\ PlannerIdle
    /\ ServicesIdle

\* ------------------------------------------------------------------------
\* ReActAgent.process
\* ------------------------------------------------------------------------

\* off by one: while iterations <= MAX_ITERATIONS
LoopCondition_OffByOne(n) == n <= MAX_ITERATIONS

\* line 85: the condition of the while loop
LoopCondition(n) == n < MAX_ITERATIONS

\* the backend is called a second time without waiting for the first answer
LoopHead_Prefetch(calls, n, context) ==
    /\ llm_calls' = llm_calls + 2
    /\ system_prompt' = get_tools_prompt(registry)
    /\ IF LoopCondition(n)
       THEN /\ iterations' = n + 1
            /\ prompt' = BuildPrompt(context, calls)
            /\ pc' = "await_llm"
       ELSE /\ iterations' = n
            /\ prompt' = FinalPrompt(context)
            /\ pc' = "await_final"

\* From the top of the while loop to the next await: either the body up to
\* the call of self.llm.chat (lines 85-97), or, the loop being over, the
\* forced final call (lines 139-141).
LoopHead(calls, n, context) ==
    /\ llm_calls' = llm_calls + 1
    /\ system_prompt' = get_tools_prompt(registry)
    /\ IF LoopCondition(n)
       THEN /\ iterations' = n + 1
            /\ prompt' = BuildPrompt(context, calls)
            /\ pc' = "await_llm"
       ELSE /\ iterations' = n
            /\ prompt' = FinalPrompt(context)
            /\ pc' = "await_final"

\* The scripted backend and the environment answer as they did at the call
\* before, or change their answer, at most MaxSwitches times.
SameAsBefore(r, env) ==
    IF responses = <<>> THEN TRUE
    ELSE r = responses[Len(responses)] /\ env = last_env

ScriptStep(r, env) ==
    /\ SameAsBefore(r, env) \/ switches < MaxSwitches
    /\ responses' = Append(responses, r)
    /\ last_env' = env
    /\ switches' = IF SameAsBefore(r, env) THEN switches ELSE switches + 1

\* lines 73-97: the call of process, up to the first call of the backend
Start(msg) ==
    /\ pc = "idle"
    /\ user_message' = msg
    /\ conversation_history' =
          Append(conversation_history, [role |-> "user", content |-> <<msg>>])
    /\ tool_calls' = <<>>
    /\ accumulated_context' = <<Line("User request: ", <<msg>>)>>
    /\ LoopHead(<<>>, 0, <<Line("User request: ", <<msg>>)>>)
    /\ UNCHANGED <<result, exception, responses, executed, last_env, switches>>
    /\ UNCHANGED outside_process

\* the record is put in front of the list instead of at its end
ToolCallStep_Prepend(r, env) ==
    /\ pc = "await_llm"
    /\ ParseOf[r].found
    /\ env \in EnvFor(ParseOf[r].name)
    /\ ScriptStep(r, env)
    /\ LET tool_name == ParseOf[r].name
           tool_args == ParseOf[r].arguments
           outcome == execute_tool(tool_name, tool_args, env)
           record == [tool |-> tool_name, arguments |-> tool_args,
                      result |-> outcome.value]
       IN
       /\ executed' = Append(executed, [tool |-> tool_name, arguments |-> tool_args])
       /\ IF outcome.raised
          THEN \* line 108 raises
               /\ pc' = "raised"
               /\ exception' = "ToolException"
               /\ UNCHANGED <<tool_calls, accumulated_context, iterations,
                              prompt, llm_calls, system_prompt>>
          ELSE IF ~Serializable(outcome.value)
          THEN \* line 120: json.dumps(result, indent=2) raises TypeError
               /\ tool_calls' = <<record>> \o tool_calls
               /\ accumulated_context' =
                     accumulated_context \o PartialToolBlock(tool_name, tool_args)
               /\ pc' = "raised"
               /\ exception' = "TypeError"
               /\ UNCHANGED <<iterations, prompt, llm_calls, system_prompt>>
          ELSE /\ tool_calls' = <<record>> \o tool_calls
               /\ accumulated_context' =
                     accumulated_context \o ToolBlock(tool_name, tool_args, outcome.value)
               /\ LoopHead(<<record>> \o tool_calls, iterations,
                           accumulated_context
                               \o ToolBlock(tool_name, tool_args, outcome.value))
               /\ UNCHANGED exception
    /\ UNCHANGED <<conversation_history, user_message, result>>
    /\ UNCHANGED outside_process

\* the context is rebuilt from the request and the latest tool call only
ToolCallStep_LatestOnly(r, env) ==
    /\ pc = "await_llm"
    /\ ParseOf[r].found
    /\ env \in EnvFor(ParseOf[r].name)
    /\ ScriptStep(r, env)
    /\ LET tool_name == ParseOf[r].name
           tool_args == ParseOf[r].arguments
           outcome == execute_tool(tool_name, tool_args, env)
           record == [tool |-> tool_name, arguments |-> tool_args,
                      result |-> outcome.value]
       IN
       /\ executed' = Append(executed, [tool |-> tool_name, arguments |-> tool_args])
       /\ IF outcome.raised
          THEN \* line 108 raises
               /\ pc' = "raised"
               /\ exception' = "ToolException"
               /\ UNCHANGED <<tool_calls, accumulated_context, iterations,
                              prompt, llm_calls, system_prompt>>
          ELSE IF ~Serializable(outcome.value)
          THEN \* line 120: json.dumps(result, indent=2) raises TypeError
               /\ tool_calls' = Append(tool_calls, record)
               /\ accumulated_context' =
                     accumulated_context \o PartialToolBlock(tool_name, tool_args)
               /\ pc' = "raised"
               /\ exception' = "TypeError"
               /\ UNCHANGED <<iterations, prompt, llm_calls, system_prompt>>
          ELSE /\ tool_calls' = Append(tool_calls, record)
               /\ accumulated_context' =
                     <<accumulated_context[1]>> \o ToolBlock(tool_name, tool_args, outcome.value)
               /\ LoopHead(Append(tool_calls, record), iterations,
                           <<accumulated_context[1]>>
                               \o ToolBlock(tool_name, tool_args, outcome.value))
               /\ UNCHANGED exception
    /\ UNCHANGED <<conversation_history, user_message, result>>
    /\ UNCHANGED outside_process

\* lines 97-121 and back to the top of the loop: the backend answers r with a
\* tool call in it, and the tool runs in the environment env
ToolCallStep(r, env) ==
    /\ pc = "await_llm"
    /\ ParseOf[r].found
    /\ env \in EnvFor(ParseOf[r].name)
    /\ ScriptStep(r, env)
    /\ LET tool_name == ParseOf[r].name
           tool_args == ParseOf[r].arguments
           outcome == execute_tool(tool_name, tool_args, env)
           record == [tool |-> tool_name, arguments |-> tool_args,
                      result |-> outcome.value]
       IN
       /\ executed' = Append(executed, [tool |-> tool_name, arguments |-> tool_args])
       /\ IF outcome.raised
          THEN \* line 108 raises
               /\ pc' = "raised"
               /\ exception' = "ToolException"
               /\ UNCHANGED <<tool_calls, accumulated_context, iterations,
                              prompt, llm_calls, system_prompt>>
          ELSE IF ~Serializable(outcome.value)
          THEN \* line 120: json.dumps(result, indent=2) raises TypeError
               /\ tool_calls' = Append(tool_calls, record)
               /\ accumulated_context' =
                     accumulated_context \o PartialToolBlock(tool_name, tool_args)
               /\ pc' = "raised"
               /\ exception' = "TypeError"
               /\ UNCHANGED <<iterations, prompt, llm_calls, system_prompt>>
          ELSE /\ tool_calls' = Append(tool_calls, record)
               /\ accumulated_context' =
                     accumulated_context \o ToolBlock(tool_name, tool_args, outcome.value)
               /\ LoopHead(Append(tool_calls, record), iterations,
                           accumulated_context
                               \o ToolBlock(tool_name, tool_args, outcome.value))
               /\ UNCHANGED exception
    /\ UNCHANGED <<conversation_history, user_message, result>>
    /\ UNCHANGED outside_process

\* the natural finish reports the iterations that ended with a tool call
FinalAnswerStep_ZeroBased(r) ==
    /\ pc = "await_llm"
    /\ ~ParseOf[r].found
    /\ ScriptStep(r, last_env)
    /\ conversation_history' =
          Append(conversation_history,
                 [role |-> "assistant", content |-> CleanOf[r]])
    /\ result' = [response |-> CleanOf[r],
                  tool_calls |-> tool_calls,
                  iterations |-> iterations - 1]
    /\ pc' = "returned"
    /\ UNCHANGED <<user_message, tool_calls, iterations, accumulated_context,
                   prompt, exception, llm_calls, executed>>
    /\ UNCHANGED <<system_prompt, outside_process>>

\* lines 97-102, 123-137: the backend answers r with no tool call in it
FinalAnswerStep(r) ==
    /\ pc = "await_llm"
    /\ ~ParseOf[r].found
    /\ ScriptStep(r, last_env)
    /\ conversation_history' =
          Append(conversation_history,
                 [role |-> "assistant", content |-> CleanOf[r]])
    /\ result' = [response |-> CleanOf[r],
                  tool_calls |-> tool_calls,
                  iterations |-> iterations]
    /\ pc' = "returned"
    /\ UNCHANGED <<user_message, tool_calls, iterations, accumulated_context,
                   prompt, exception, llm_calls, executed>>
    /\ UNCHANGED <<system_prompt, outside_process>>

\* the forced final response is parsed and its tool dispatched
ForcedFinish_Dispatch(r) ==
    /\ pc = "await_final"
    /\ ScriptStep(r, last_env)
    /\ executed' =
          IF ParseOf[r].found
          THEN Append(executed, [tool |-> ParseOf[r].name,
                                 arguments |-> ParseOf[r].arguments])
          ELSE executed
    /\ result' = [response |-> CleanOf[r],
                  tool_calls |-> tool_calls,
                  iterations |-> iterations,
                  max_iterations_reached |-> TRUE]
    /\ pc' = "returned"
    /\ UNCHANGED <<conversation_history, user_message, tool_calls, iterations,
                   accumulated_context, prompt, exception, llm_calls>>
    /\ UNCHANGED <<system_prompt, outside_process>>

\* the forced finish returns the three keys of the natural finish
ForcedFinish_NoFlag(r) ==
    /\ pc = "await_final"
    /\ ScriptStep(r, last_env)
    /\ result' = [response |-> CleanOf[r],
                  tool_calls |-> tool_calls,
                  iterations |-> iterations]
    /\ pc' = "returned"
    /\ UNCHANGED <<conversation_history, user_message, tool_calls, iterations,
                   accumulated_context, prompt, exception, llm_calls, executed>>
    /\ UNCHANGED <<system_prompt, outside_process>>

\* lines 141-149: the backend answers the forced final call with r
ForcedFinish(r) ==
    /\ pc = "await_final"
    /\ ScriptStep(r, last_env)
    /\ result' = [response |-> CleanOf[r],
                  tool_calls |-> tool_calls,
                  iterations |-> iterations,
                  max_iterations_reached |-> TRUE]
    /\ pc' = "returned"
    /\ UNCHANGED <<conversation_history, user_message, tool_calls, iterations,
                   accumulated_context, prompt, exception, llm_calls, executed>>
    /\ UNCHANGED <<system_prompt, outside_process>>

\* the failure is caught and the records gathered so far are returned
BackendFailure_Absorbed ==
    /\ pc \in {"await_llm", "await_final"}
    /\ pc' = "returned"
    /\ result' = [response |-> <<"Sorry", ".">>,
                  tool_calls |-> tool_calls,
                  iterations |-> iterations]
    /\ UNCHANGED <<conversation_history, user_message, tool_calls, iterations,
                   accumulated_context, prompt, exception, responses, llm_calls,
                   executed, last_env, switches>>
    /\ UNCHANGED <<system_prompt, outside_process>>

\* lines 97, 141: self.llm.chat raises (provider outage, timeout)
BackendFailure ==
    /\ pc \in {"await_llm", "await_final"}
    /\ pc' = "raised"
    /\ exception' = "CompletionBackendFailure"
    /\ UNCHANGED <<conversation_history, user_message, tool_calls, iterations,
                   accumulated_context, prompt, result, responses, llm_calls,
                   executed, last_env, switches>>
    /\ UNCHANGED <<system_prompt, outside_process>>

Next ==
    \/ \E msg \in UserMessages : Start(msg)
    \/ \E r \in Responses, env \in Env : ToolCallStep(r, env)
    \/ \E r \in Responses : FinalAnswerStep(r)
    \/ \E r \in Responses : ForcedFinish(r)
    \/ BackendFailure

Spec == Init /\ [][Next]_vars

\* ------------------------------------------------------------------------
\* _clean_response and _parse_tool_call on their own
\* ------------------------------------------------------------------------

\* the tokens of the texts
TextTokens == {"TOOL:", "ARGS:", "Done", " ", "\n", "{"}

Texts == UNION {[1..n -> TextTokens] : n \in 0..MaxTextLen}

InitClean ==
    /\ ProcessIdle
    /\ text \in Texts
    /\ clean_out = <<>>
    /\ parse_out = <<>>
    /\ parsed = <<>>
    /\ NoInvocations
    /\ RegistryLoaded
    /\ PlannerIdle
    /\ ServicesIdle

\* _clean_response(text)
CleanResponse ==
    /\ clean_out = <<>>
    /\ clean_out' = <<_clean_response(text)>>
    /\ UNCHANGED <<text, parse_out, parsed, planner_vars, service_vars,
                   inside_process,
                   concurrent_vars, registry_vars>>

\* _clean_response on its own result
CleanAgain ==
    /\ Len(clean_out) = 1
    /\ clean_out' = Append(clean_out, _clean_response(clean_out[1]))
    /\ UNCHANGED <<text, parse_out, parsed, planner_vars, service_vars,
                   inside_process,
                   concurrent_vars, registry_vars>>

\* _parse_tool_call on the text and on the cleaned text
ParseCleaned ==
    /\ clean_out # <<>>
    /\ parse_out = <<>>
    /\ parse_out' = <<[before |-> _parse_tool_call(text).found,
                       after |-> _parse_tool_call(clean_out[1]).found]>>
    /\ UNCHANGED <<text, clean_out, parsed, planner_vars, service_vars,
                   inside_process,
                   concurrent_vars, registry_vars>>

NextClean ==
    \/ CleanResponse
    \/ CleanAgain
    \/ ParseCleaned

SpecClean == InitClean /\ [][NextClean]_vars

\* ------------------------------------------------------------------------
\* _parse_tool_call on responses made of whole lines
\* ------------------------------------------------------------------------

\* the lines a response is made of
ResponseLines ==
    {<<"TOOL:", " ", "get_weather">>,
     <<"TOOL:", " ", "search_web">>,
     ArgsBlock(BodyParis),
     ArgsBlock(BodyGoa),
     <<"Sunny", ".">>,
     <<"Sunny", " ", "tool:">>,
     <<"tool:", ".">>}

\* the responses of n lines
RECURSIVE LinesTexts(_)
LinesTexts(n) ==
    IF n = 1 THEN ResponseLines
    ELSE {t \o <<"\n">> \o l : t \in LinesTexts(n - 1), l \in ResponseLines}

ParserTexts == UNION {LinesTexts(n) : n \in 1..MaxLines}

InitParse ==
    /\ ProcessIdle
    /\ text \in ParserTexts
    /\ clean_out = <<>>
    /\ parse_out = <<>>
    /\ parsed = <<>>
    /\ NoInvocations
    /\ RegistryLoaded
    /\ PlannerIdle
    /\ ServicesIdle

\* line 100: tool_call = self._parse_tool_call(response)
ParseToolCall ==
    /\ parsed = <<>>
    /\ parsed' = <<_parse_tool_call(text)>>
    /\ UNCHANGED <<text, clean_out, parse_out, planner_vars, service_vars,
                   inside_process,
                   concurrent_vars, registry_vars>>

NextParse == ParseToolCall

SpecParse == InitParse /\ [][NextParse]_vars

\* ------------------------------------------------------------------------
\* Interleaved invocations of process.  An invocation gives up control only
\* at its awaits of self.llm.chat (lines 97, 141): a step runs one
\* invocation from the answer to one backend call up to its next backend
\* call, on that invocation's locals and on its agent's conversation_history.
\* ------------------------------------------------------------------------

Answer(r, env) == [r |-> r, env |-> env]

\* the scripted backends of the invocations
Scripts ==
    {<<Answer(RPlain, "ok")>>,
     <<Answer(RWeather, "ok"), Answer(RPadded, "ok")>>,
     <<Answer(RUnknown, "ok"), Answer(RSearch, "raises"), Answer(RPlain, "ok")>>,
     [i \in 1..(MAX_ITERATIONS + 1) |->
         IF i <= MAX_ITERATIONS THEN Answer(RBudget, "ok")
         ELSE Answer(RWeather, "ok")]}

\* both invocations on one agent, or each on its own
AgentChoices == {[k \in Invocations |-> 1], [k \in Invocations |-> k]}

InitConcurrent ==
    /\ ProcessIdle
    /\ NoText
    /\ RegistryLoaded
    /\ PlannerIdle
    /\ ServicesIdle
    /\ frames \in {[k \in Invocations |-> [FrameIdle EXCEPT !.script = sc[k]]] :
                       sc \in [Invocations -> Scripts]}
    /\ agent_of \in AgentChoices
    /\ histories = [a \in Agents |-> <<>>]

\* lines 85-97, 139-141: from the top of the loop to the next await
FrameLoopHead(f) ==
    IF LoopCondition(f.iterations)
    THEN [f EXCEPT !.iterations = @ + 1,
                   !.prompt = BuildPrompt(f.accumulated_context, f.tool_calls),
                   !.pc = "await_llm"]
    ELSE [f EXCEPT !.prompt = FinalPrompt(f.accumulated_context),
                   !.pc = "await_final"]

\* lines 81-97: the locals at the first backend call
FrameStart(f, msg) ==
    FrameLoopHead([f EXCEPT !.user_message = msg,
                            !.tool_calls = <<>>,
                            !.iterations = 0,
                            !.accumulated_context =
                                <<Line("User request: ", <<msg>>)>>])

\* lines 100-121 and back to the top of the loop
FrameToolCall(f, r, env) ==
    LET tool_name == ParseOf[r].name
        tool_args == ParseOf[r].arguments
        outcome == execute_tool(tool_name, tool_args, env)
        record == [tool |-> tool_name, arguments |-> tool_args,
                   result |-> outcome.value]
    IN
    IF outcome.raised
    THEN [f EXCEPT !.answered = @ + 1, !.pc = "raised",
                   !.exception = "ToolException"]
    ELSE IF ~Serializable(outcome.value)
    THEN [f EXCEPT !.answered = @ + 1,
                   !.tool_calls = Append(@, record),
                   !.accumulated_context = @ \o PartialToolBlock(tool_name, tool_args),
                   !.pc = "raised",
                   !.exception = "TypeError"]
    ELSE FrameLoopHead(
            [f EXCEPT !.answered = @ + 1,
                      !.tool_calls = Append(@, record),
                      !.accumulated_context =
                          @ \o ToolBlock(tool_name, tool_args, outcome.value)])

\* the answer the backend of invocation k gives next
NextAnswer(k) == frames[k].script[frames[k].answered + 1]

HasNextAnswer(k) == frames[k].answered < Len(frames[k].script)

\* the context starts with the turns of the agent's conversation history
Begin_WithHistory(k, msg) ==
    /\ frames[k].pc = "idle"
    /\ frames' =
          [frames EXCEPT ![k] =
              FrameLoopHead(
                  [@ EXCEPT !.user_message = msg,
                            !.tool_calls = <<>>,
                            !.iterations = 0,
                            !.accumulated_context =
                                [i \in 1..Len(histories[agent_of[k]]) |->
                                    Line(histories[agent_of[k]][i].role,
                                         histories[agent_of[k]][i].content)]
                                \o <<Line("User request: ", <<msg>>)>>])]
    /\ histories' =
          [histories EXCEPT ![agent_of[k]] =
              Append(@, [role |-> "user", content |-> <<msg>>])]
    /\ UNCHANGED <<agent_of, planner_vars, service_vars,
                   inside_process, clean_vars,
                   registry_vars>>

\* lines 73-97: invocation k is called with msg
Begin(k, msg) ==
    /\ frames[k].pc = "idle"
    /\ frames' = [frames EXCEPT ![k] = FrameStart(@, msg)]
    /\ histories' =
          [histories EXCEPT ![agent_of[k]] =
              Append(@, [role |-> "user", content |-> <<msg>>])]
    /\ UNCHANGED <<agent_of, planner_vars, service_vars,
                   inside_process, clean_vars,
                   registry_vars>>

\* the list of records is the agent's: every invocation on the agent of k
\* sees the record
ToolCallAnswer_SharedCalls(k) ==
    /\ frames[k].pc = "await_llm"
    /\ HasNextAnswer(k)
    /\ ParseOf[NextAnswer(k).r].found
    /\ frames' =
          [j \in Invocations |->
              IF j = k
              THEN FrameToolCall(frames[k], NextAnswer(k).r, NextAnswer(k).env)
              ELSE IF agent_of[j] = agent_of[k] /\ frames[j].pc # "idle"
              THEN [frames[j] EXCEPT !.tool_calls =
                        FrameToolCall(frames[k], NextAnswer(k).r,
                                      NextAnswer(k).env).tool_calls]
              ELSE frames[j]]
    /\ UNCHANGED <<agent_of, histories, planner_vars, service_vars,
                   inside_process, clean_vars,
                   registry_vars>>

\* lines 97-121: the backend of k answers with a tool call
ToolCallAnswer(k) ==
    /\ frames[k].pc = "await_llm"
    /\ HasNextAnswer(k)
    /\ ParseOf[NextAnswer(k).r].found
    /\ frames' = [frames EXCEPT ![k] =
                      FrameToolCall(@, NextAnswer(k).r, NextAnswer(k).env)]
    /\ UNCHANGED <<agent_of, histories, planner_vars, service_vars,
                   inside_process, clean_vars,
                   registry_vars>>

\* lines 97-102, 123-137: the backend of k answers with no tool call
FinalAnswer(k) ==
    /\ frames[k].pc = "await_llm"
    /\ HasNextAnswer(k)
    /\ ~ParseOf[NextAnswer(k).r].found
    /\ frames' =
          [frames EXCEPT ![k] =
              [@ EXCEPT !.answered = @ + 1,
                        !.pc = "returned",
                        !.result = [response |-> CleanOf[NextAnswer(k).r],
                                    tool_calls |-> frames[k].tool_calls,
                                    iterations |-> frames[k].iterations]]]
    /\ histories' =
          [histories EXCEPT ![agent_of[k]] =
              Append(@, [role |-> "assistant",
                         content |-> CleanOf[NextAnswer(k).r]])]
    /\ UNCHANGED <<agent_of, planner_vars, service_vars,
                   inside_process, clean_vars,
                   registry_vars>>

\* lines 141-149: the backend of k answers the forced final call
ForcedAnswer(k) ==
    /\ frames[k].pc = "await_final"
    /\ HasNextAnswer(k)
    /\ frames' =
          [frames EXCEPT ![k] =
              [@ EXCEPT !.answered = @ + 1,
                        !.pc = "returned",
                        !.result = [response |-> CleanOf[NextAnswer(k).r],
                                    tool_calls |-> frames[k].tool_calls,
                                    iterations |-> frames[k].iterations,
                                    max_iterations_reached |-> TRUE]]]
    /\ UNCHANGED <<agent_of, histories, planner_vars, service_vars,
                   inside_process, clean_vars,
                   registry_vars>>

\* lines 97, 141: self.llm.chat raises in invocation k
BackendFails(k) ==
    /\ frames[k].pc \in {"await_llm", "await_final"}
    /\ frames' = [frames EXCEPT ![k] =
                      [@ EXCEPT !.pc = "raised",
                                !.exception = "CompletionBackendFailure"]]
    /\ UNCHANGED <<agent_of, histories, planner_vars, service_vars,
                   inside_process, clean_vars,
                   registry_vars>>

NextConcurrent ==
    \/ \E k \in Invocations, msg \in UserMessages : Begin(k, msg)
    \/ \E k \in Invocations : ToolCallAnswer(k)
    \/ \E k \in Invocations : FinalAnswer(k)
    \/ \E k \in Invocations : ForcedAnswer(k)
    \/ \E k \in Invocations : BackendFails(k)

SpecConcurrent == InitConcurrent /\ [][NextConcurrent]_vars

\* ------------------------------------------------------------------------
\* Two agents with different conversation histories
\* ------------------------------------------------------------------------

\* what earlier calls of process left in conversation_history: nothing, the
\* two entries of a natural finish, or the user entry of a forced finish
EarlierHistories ==
    {<<>>,
     <<[role |-> "user", content |-> <<"Weather in Goa?">>],
       [role |-> "assistant", content |-> <<"Sunny", ".">>]>>,
     <<[role |-> "user", content |-> <<"Plan a trip to Paris">>]>>}

\* one invocation on each of two agents, the backends of both with the same
\* script
InitHistory ==
    /\ ProcessIdle
    /\ NoText
    /\ RegistryLoaded
    /\ PlannerIdle
    /\ ServicesIdle
    /\ frames \in {[k \in Invocations |-> [FrameIdle EXCEPT !.script = sc]] :
                       sc \in Scripts}
    /\ agent_of = [k \in Invocations |-> k]
    /\ histories \in [Agents -> EarlierHistories]

SpecHistory == InitHistory /\ [][NextConcurrent]_vars

\* ------------------------------------------------------------------------
\* The registry and its readers (agents/tools.py), beside an invocation of
\* process whose backend and tools give the same answer at every call
\* ------------------------------------------------------------------------

InitRegistry ==
    /\ conversation_history = <<>>
    /\ pc = "idle"
    /\ user_message = ""
    /\ tool_calls = <<>>
    /\ iterations = 0
    /\ accumulated_context = <<>>
    /\ prompt = <<>>
    /\ result = NoResult
    /\ exception = NoException
    /\ responses = <<>>
    /\ llm_calls = 0
    /\ executed = <<>>
    /\ last_env = "ok"
    /\ switches = MaxSwitches
    /\ system_prompt = <<>>
    /\ NoText
    /\ NoInvocations
    /\ RegistryLoaded
    /\ PlannerIdle
    /\ ServicesIdle

\* get_tools_prompt sorts TOOL_DEFINITIONS in place before it describes it:
\* here the list is turned round
GetToolsPrompt_SortsInPlace ==
    /\ Len(described) < MaxReaderCalls
    /\ registry' = [i \in 1..Len(registry) |-> registry[Len(registry) + 1 - i]]
    /\ described' = Append(described, get_tools_prompt(registry'))
    /\ UNCHANGED <<listed, planner_vars, service_vars,
                   inside_process, clean_vars,
                   concurrent_vars>>

\* lines 312-323: a call of get_tools_prompt()
GetToolsPrompt ==
    /\ Len(described) < MaxReaderCalls
    /\ described' = Append(described, get_tools_prompt(registry))
    /\ UNCHANGED <<registry, listed, planner_vars, service_vars,
                   inside_process, clean_vars,
                   concurrent_vars>>

\* lines 326-328: a call of list_tool_names()
ListToolNames ==
    /\ Len(listed) < MaxReaderCalls
    /\ listed' = Append(listed, list_tool_names(registry))
    /\ UNCHANGED <<registry, described, planner_vars, service_vars,
                   inside_process, clean_vars,
                   concurrent_vars>>

NextRegistry ==
    \/ GetToolsPrompt
    \/ ListToolNames
    \/ \E msg \in UserMessages : Start(msg)
    \/ \E r \in Responses, env \in Env : ToolCallStep(r, env)
    \/ \E r \in Responses : FinalAnswerStep(r)
    \/ \E r \in Responses : ForcedFinish(r)
    \/ BackendFailure

SpecRegistry == InitRegistry /\ [][NextRegistry]_vars

\* ------------------------------------------------------------------------
\* PlannerAgent.create_plan (agents/planner_agent.py) and the agents it calls
\* ------------------------------------------------------------------------

\* bool(v) of a JSON value
Truthy(v) == v \notin {Null, Str(""), Int("0"), List("[]")}

\* bool(m) of a mapping, None included
TruthyMap(m) == m # NotSupplied /\ DOMAIN m # {}

\* preference_agent.py, lines 82-91: the preferences when nothing was parsed
UnknownPreferences ==
    [destination |-> Null, dates |-> Null, budget |-> Null,
     interests |-> List("[]"), constraints |-> List("[]"),
     group_size |-> Null, accommodation_type |-> Null, travel_style |-> Null]

\* preference mappings a caller supplies or the extraction answers with
ParisPreferences ==
    [destination |-> Str("Paris"), travel_style |-> Str("luxury"),
     group_size |-> Int("2")]
BlankPreferences == [destination |-> Str(""), travel_style |-> Str("budget")]
StylelessPreferences == [destination |-> Str("Goa"), travel_style |-> Int("5")]
PreferenceMaps ==
    {EmptyMap, UnknownPreferences, ParisPreferences, BlankPreferences,
     StylelessPreferences}

\* what the backend does when asked to extract: it fails, or it answers
\* with a text in which a JSON object is found, or with one that has none
ExtractionAnswers ==
    {[raises |-> TRUE, json |-> FALSE, value |-> EmptyMap],
     [raises |-> FALSE, json |-> FALSE, value |-> EmptyMap]}
    \cup {[raises |-> FALSE, json |-> TRUE, value |-> m] : m \in PreferenceMaps}

\* PreferenceAgent.extract_preferences
extract_preferences(answer) ==
    IF answer.raises THEN Raised("CompletionBackendFailure")
    ELSE IF answer.json THEN Returned(answer.value)
    ELSE Returned(UnknownPreferences)

\* what the backend and the geocoding service do during a place lookup
GeoOutcomes == {"ok", "geocode_fails", "raises"}

\* GeoAgent.get_place_info: geocode absorbs its own failures
get_place_info(place_name, geo) ==
    IF geo = "raises" THEN Raised("CompletionBackendFailure")
    ELSE Returned([name |-> place_name,
                   coordinates |-> IF geo = "ok" THEN Str("(lat, lon)") ELSE Null,
                   description |-> Str("place description")])

\* BudgetAgent._cost_data, summed over the four categories
DailyTotal ==
    [budget |-> [min |-> 55, max |-> 135],
     moderate |-> [min |-> 190, max |-> 360],
     luxury |-> [min |-> 480, max |-> 1150]]

\* the number a JSON integer stands for
NumberOf(v) == IF v = Int("2") THEN 2 ELSE 1

\* BudgetAgent.estimate_trip_budget, with estimate_daily_cost: a travel
\* style that is not a string has no .lower()
estimate_trip_budget(days, travel_style, group_size) ==
    IF Truthy(travel_style) /\ ~IsStr(travel_style)
    THEN Raised("AttributeError")
    ELSE LET style == IF travel_style \in {Str("budget"), Str("luxury")}
                      THEN travel_style[2] ELSE "moderate"
         IN Returned(
              [daily_per_person |-> DailyTotal[style],
               total_per_person |-> [min |-> DailyTotal[style].min * days,
                                     max |-> DailyTotal[style].max * days],
               total_group |-> [min |-> DailyTotal[style].min * days * group_size,
                                max |-> DailyTotal[style].max * days * group_size],
               duration_days |-> days,
               group_size |-> group_size,
               travel_style |-> travel_style])

\* what the backend does when asked for the itinerary
SynthesisAnswers ==
    {[raises |-> TRUE, text |-> <<>>],
     [raises |-> FALSE, text |-> <<"Day", " ", "1">>],
     [raises |-> FALSE, text |-> <<>>]}

PlanStep(name, argument) == [step |-> name, argument |-> argument]

\* lines 49-66: the call of create_plan
CreatePlan(msg, existing) ==
    /\ plan_pc = "idle"
    /\ plan_pc' = "preferences"
    /\ plan_message' = msg
    /\ existing_preferences' = existing
    /\ plan' = EmptyPlan
    /\ UNCHANGED <<preferences, plan_steps, plan_returned, plan_exception>>
    /\ UNCHANGED <<inside_process, clean_vars, concurrent_vars, registry_vars,
                   service_vars>>

\* the preferences are extracted whether or not the caller supplied any
StepPreferences_AlwaysExtract(answer) ==
    /\ plan_pc = "preferences"
    /\ plan_steps' = Append(plan_steps, PlanStep("extract_preferences", <<plan_message>>))
    /\ IF extract_preferences(answer).raised
       THEN /\ plan_pc' = "raised"
            /\ plan_exception' = extract_preferences(answer).message
            /\ UNCHANGED <<preferences, plan>>
       ELSE /\ preferences' = extract_preferences(answer).value
            /\ plan' = [plan EXCEPT !.preferences = extract_preferences(answer).value]
            /\ plan_pc' = "lookup"
            /\ UNCHANGED plan_exception
    /\ UNCHANGED <<plan_message, existing_preferences, plan_returned>>
    /\ UNCHANGED <<inside_process, clean_vars, concurrent_vars, registry_vars,
                   service_vars>>

\* lines 68-73: step 1, the preferences
StepPreferences(answer) ==
    /\ plan_pc = "preferences"
    /\ IF TruthyMap(existing_preferences)
       THEN /\ preferences' = existing_preferences
            /\ plan' = [plan EXCEPT !.preferences = existing_preferences]
            /\ plan_pc' = "lookup"
            /\ UNCHANGED <<plan_steps, plan_exception>>
       ELSE /\ plan_steps' =
                  Append(plan_steps, PlanStep("extract_preferences", <<plan_message>>))
            /\ IF extract_preferences(answer).raised
               THEN /\ plan_pc' = "raised"
                    /\ plan_exception' = extract_preferences(answer).message
                    /\ UNCHANGED <<preferences, plan>>
               ELSE /\ preferences' = extract_preferences(answer).value
                    /\ plan' = [plan EXCEPT
                                   !.preferences = extract_preferences(answer).value]
                    /\ plan_pc' = "lookup"
                    /\ UNCHANGED plan_exception
    /\ UNCHANGED <<plan_message, existing_preferences, plan_returned>>
    /\ UNCHANGED <<inside_process, clean_vars, concurrent_vars, registry_vars,
                   service_vars>>

\* lines 75-79: step 2, the destination
StepLookup(geo) ==
    /\ plan_pc = "lookup"
    /\ LET destination == Get(preferences, "destination", Null) IN
       IF Truthy(destination)
       THEN /\ plan_steps' = Append(plan_steps, PlanStep("get_place_info", <<destination>>))
            /\ IF get_place_info(destination, geo).raised
               THEN /\ plan_pc' = "raised"
                    /\ plan_exception' = get_place_info(destination, geo).message
                    /\ UNCHANGED plan
               ELSE /\ plan' = [plan EXCEPT !.locations =
                                   Append(@, get_place_info(destination, geo).value)]
                    /\ plan_pc' = "budget"
                    /\ UNCHANGED plan_exception
       ELSE /\ plan_pc' = "budget"
            /\ UNCHANGED <<plan, plan_steps, plan_exception>>
    /\ UNCHANGED <<plan_message, existing_preferences, preferences, plan_returned>>
    /\ UNCHANGED <<inside_process, clean_vars, concurrent_vars, registry_vars,
                   service_vars>>

\* lines 81-97: step 3, the budget
StepBudget ==
    /\ plan_pc = "budget"
    /\ LET days == 7
           travel_style == Get(preferences, "travel_style", Str("moderate"))
           group_size == IF Truthy(Get(preferences, "group_size", Int("1")))
                         THEN NumberOf(Get(preferences, "group_size", Int("1")))
                         ELSE 1
           estimate == estimate_trip_budget(days, travel_style, group_size)
       IN
       /\ plan_steps' = Append(plan_steps, PlanStep("estimate_trip_budget", <<travel_style>>))
       /\ IF estimate.raised
          THEN /\ plan_pc' = "raised"
               /\ plan_exception' = estimate.message
               /\ UNCHANGED plan
          ELSE /\ plan' = [plan EXCEPT !.budget_analysis = estimate.value]
               /\ plan_pc' = "synthesis"
               /\ UNCHANGED plan_exception
    /\ UNCHANGED <<plan_message, existing_preferences, preferences, plan_returned>>
    /\ UNCHANGED <<inside_process, clean_vars, concurrent_vars, registry_vars,
                   service_vars>>

\* lines 99-122: step 4, the itinerary, and the return
StepSynthesis(answer) ==
    /\ plan_pc = "synthesis"
    /\ plan_steps' = Append(plan_steps, PlanStep("process", <<plan_message>>))
    /\ IF answer.raises
       THEN /\ plan_pc' = "raised"
            /\ plan_exception' = "CompletionBackendFailure"
            /\ UNCHANGED <<plan, plan_returned>>
       ELSE /\ plan' = [plan EXCEPT !.itinerary = answer.text]
            /\ plan_returned' = [plan EXCEPT !.itinerary = answer.text]
            /\ plan_pc' = "returned"
            /\ UNCHANGED plan_exception
    /\ UNCHANGED <<plan_message, existing_preferences, preferences>>
    /\ UNCHANGED <<inside_process, clean_vars, concurrent_vars, registry_vars,
                   service_vars>>

NextPlanner ==
    \/ \E msg \in UserMessages, existing \in PreferenceMaps \cup {NotSupplied} :
            CreatePlan(msg, existing)
    \/ \E answer \in ExtractionAnswers : StepPreferences(answer)
    \/ \E geo \in GeoOutcomes : StepLookup(geo)
    \/ StepBudget
    \/ \E answer \in SynthesisAnswers : StepSynthesis(answer)

SpecPlanner == Init /\ [][NextPlanner]_vars

\* ------------------------------------------------------------------------
\* BaseAgent.process on one agent.  A call gives up control at its await
\* of self.llm.chat (base_agent.py line 52); get_planner (api/main.py lines
\* 26-30) hands the one agent of a session to every request of the session,
\* so calls on one agent may overlap.
\* ------------------------------------------------------------------------

\* the context argument: None, or a mapping from the orchestrator
NoContext == ""
Contexts == {NoContext, "{'budget': 'low'}"}

\* lines 43-46: the message with the context appended when there is one
enhanced_message(message, context) ==
    IF context # NoContext
    THEN <<message, "\n\nContext: ", context>>
    ELSE <<message>>

\* what self.llm.chat returns
BaseAnswers == {<<"Sure", ".">>, <<"Day", " ", "1">>}

\* an entry of the history
Entry(role, content) == [role |-> role, content |-> content]

InitBase ==
    /\ ProcessIdle /\ NoText /\ NoInvocations /\ RegistryLoaded /\ PlannerIdle
    /\ ServicesIdle

\* lines 43-52: the user entry is appended, then the call awaits the backend
BaseProcessStart(message, context) ==
    /\ Len(base_calls) < MaxProcessCalls
    /\ _conversation_history' =
           Append(_conversation_history,
                  Entry("user", enhanced_message(message, context)))
    /\ base_calls' =
           Append(base_calls,
                  [pc |-> "awaiting",
                   message |-> enhanced_message(message, context),
                   response |-> <<>>])
    /\ UNCHANGED <<session_vars, client_vars, inside_process, clean_vars,
                   concurrent_vars, registry_vars, planner_vars>>

\* lines 52-60: the backend answers; the assistant entry is appended and
\* the response returned
BaseProcessReturn(c, response) ==
    /\ c \in DOMAIN base_calls
    /\ base_calls[c].pc = "awaiting"
    /\ _conversation_history' =
           Append(_conversation_history, Entry("assistant", response))
    /\ base_calls' =
           [base_calls EXCEPT ![c].pc = "returned", ![c].response = response]
    /\ UNCHANGED <<session_vars, client_vars, inside_process, clean_vars,
                   concurrent_vars, registry_vars, planner_vars>>

\* line 52: the backend raises; nothing catches it and the call ends here
BaseProcessRaise(c) ==
    /\ c \in DOMAIN base_calls
    /\ base_calls[c].pc = "awaiting"
    /\ base_calls' = [base_calls EXCEPT ![c].pc = "raised"]
    /\ UNCHANGED <<_conversation_history, session_vars, client_vars,
                   inside_process, clean_vars, concurrent_vars,
                   registry_vars, planner_vars>>

NextBase ==
    \/ \E message \in UserMessages, context \in Contexts :
          BaseProcessStart(message, context)
    \/ \E c \in 1..MaxProcessCalls, response \in BaseAnswers :
          BaseProcessReturn(c, response)
    \/ \E c \in 1..MaxProcessCalls : BaseProcessRaise(c)

SpecBase == InitBase /\ [][NextBase]_vars

\* ------------------------------------------------------------------------
\* SessionStore and the chat endpoint.  Time is counted in hours; a session
\* id is written as a sequence, the empty one for None or "".
\* ------------------------------------------------------------------------

\* str(uuid.uuid4()): the n-th id generated, different from every other
uuid4(n) == <<n>>

\* no session id, and an id the store never generated
NoId == <<>>
UnknownId == <<0>>

\* Session.__init__, lines 19-26
Session(session_id, t) ==
    [session_id |-> session_id, created_at |-> t, last_activity |-> t,
     messages |-> <<>>]

\* Session.add_message, lines 28-36
add_message(session, role, content, t) ==
    [session EXCEPT !.messages = Append(@, Entry(role, content)),
                    !.last_activity = t]

\* expired already at the timeout itself
_is_expired_Inclusive(session, t) ==
    t >= session.last_activity + SESSION_TIMEOUT_HOURS

\* SessionStore._is_expired, lines 128-131
_is_expired(session, t) ==
    t > session.last_activity + SESSION_TIMEOUT_HOURS

\* self._sessions[session_id] = session
Put(store, session_id, session) ==
    [i \in DOMAIN store \cup {session_id} |->
        IF i = session_id THEN session ELSE store[i]]

\* SessionStore.delete_session, lines 121-126
delete_session(store, session_id) ==
    [i \in DOMAIN store \ {session_id} |-> store[i]]

\* the outcome of a call of the store: the store after it, what it
\* returned (<<>> for None), and how many ids have been generated
Outcome(store, returned, n) ==
    [sessions |-> store, returned |-> returned, issued |-> n]

\* SessionStore.create_session, lines 93-97
create_session(store, n, t) ==
    Outcome(Put(store, uuid4(n + 1), Session(uuid4(n + 1), t)),
            <<Session(uuid4(n + 1), t)>>, n + 1)

\* SessionStore.get_session, lines 99-110
get_session(store, session_id, n, t) ==
    IF session_id \in DOMAIN store
    THEN IF _is_expired(store[session_id], t)
         THEN Outcome(delete_session(store, session_id), <<>>, n)
         ELSE Outcome(store, <<store[session_id]>>, n)
    ELSE Outcome(store, <<>>, n)

\* the new session takes the id that was asked for
get_or_create_session_ReuseId(store, session_id, n, t) ==
    IF session_id # NoId /\ get_session(store, session_id, n, t).returned # <<>>
    THEN get_session(store, session_id, n, t)
    ELSE IF session_id # NoId
    THEN Outcome(Put(get_session(store, session_id, n, t).sessions,
                     session_id, Session(session_id, t)),
                 <<Session(session_id, t)>>, n + 1)
    ELSE create_session(store, n, t)

\* SessionStore.get_or_create_session, lines 112-119
get_or_create_session(store, session_id, n, t) ==
    IF session_id # NoId /\ get_session(store, session_id, n, t).returned # <<>>
    THEN get_session(store, session_id, n, t)
    ELSE IF session_id # NoId
    THEN create_session(get_session(store, session_id, n, t).sessions, n, t)
    ELSE create_session(store, n, t)

\* the ids a caller can ask for: the generated ones and one that is not
KnownIds == {uuid4(n) : n \in 1..issued}
RequestIds == KnownIds \cup {UnknownId}
AllIds == {uuid4(n) : n \in 1..MaxSessions} \cup {UnknownId}

\* the messages and the replies of the chat endpoint
ChatMessages == {"", "Hello"}
ChatReplies == {"Sure."}

\* a call of the store, with the store before and after it
Call(op, session_id, outcome) ==
    [op |-> op, requested |-> session_id, returned |-> outcome.returned,
     before |-> _sessions, after |-> outcome.sessions, at |-> now]

\* the step every call of the store takes
StoreCall(op, session_id, outcome) ==
    /\ outcome.issued <= MaxSessions
    /\ _sessions' = outcome.sessions
    /\ issued' = outcome.issued
    /\ removed' = removed \cup (DOMAIN _sessions \ DOMAIN outcome.sessions)
    /\ last_call' = Call(op, session_id, outcome)

InitSessions ==
    /\ ProcessIdle /\ NoText /\ NoInvocations /\ RegistryLoaded /\ PlannerIdle
    /\ ServicesIdle

\* datetime.now() moves on by half a day
Tick ==
    /\ now < 12 * MaxTicks
    /\ now' = now + 12
    /\ UNCHANGED <<_sessions, issued, removed, last_call, chats>>
    /\ UNCHANGED <<base_vars, client_vars, inside_process, clean_vars,
                   concurrent_vars, registry_vars, planner_vars>>

\* api/main.py lines 154-162: store.create_session
CreateSession ==
    /\ StoreCall("create_session", NoId, create_session(_sessions, issued, now))
    /\ UNCHANGED <<now, chats>>
    /\ UNCHANGED <<base_vars, client_vars, inside_process, clean_vars,
                   concurrent_vars, registry_vars, planner_vars>>

\* api/main.py lines 165-174: store.get_session
GetSession(session_id) ==
    /\ session_id \in RequestIds
    /\ StoreCall("get_session", session_id,
                 get_session(_sessions, session_id, issued, now))
    /\ UNCHANGED <<now, chats>>
    /\ UNCHANGED <<base_vars, client_vars, inside_process, clean_vars,
                   concurrent_vars, registry_vars, planner_vars>>

\* store.get_or_create_session
GetOrCreateSession(session_id) ==
    /\ session_id \in RequestIds \cup {NoId}
    /\ StoreCall("get_or_create_session", session_id,
                 get_or_create_session(_sessions, session_id, issued, now))
    /\ UNCHANGED <<now, chats>>
    /\ UNCHANGED <<base_vars, client_vars, inside_process, clean_vars,
                   concurrent_vars, registry_vars, planner_vars>>

\* a request of the chat endpoint
Chat(state, session_id, message) ==
    [pc |-> state, session_id |-> session_id, message |-> message]

\* api/main.py lines 178-194: the session is looked up, the request
\* validated, and the user message stored before the planner is called.
\* A request answered with 404 (no session) or 400 (no message) ends here
\* and leaves no request behind.
ChatStart(session_id, message) ==
    LET got == get_session(_sessions, session_id, issued, now) IN
    /\ Len(chats) < MaxChats
    /\ session_id \in RequestIds
    /\ issued' = issued
    /\ removed' = removed \cup (DOMAIN _sessions \ DOMAIN got.sessions)
    /\ last_call' = Call("get_session", session_id, got)
    /\ IF got.returned = <<>>
       THEN /\ _sessions' = got.sessions
            /\ chats' = chats
       ELSE IF message = ""
       THEN /\ _sessions' = got.sessions
            /\ chats' = chats
       ELSE /\ _sessions' =
                  Put(got.sessions, session_id,
                      add_message(got.returned[1], "user", message, now))
            /\ chats' = Append(chats, Chat("planning", session_id, message))
    /\ UNCHANGED now
    /\ UNCHANGED <<base_vars, client_vars, inside_process, clean_vars,
                   concurrent_vars, registry_vars, planner_vars>>

\* api/main.py lines 195-202: the planner answers; the reply is stored in
\* the session object the request holds, and sent with status 200
ChatReply(c, response) ==
    /\ c \in DOMAIN chats
    /\ chats[c].pc = "planning"
    /\ chats' = [chats EXCEPT ![c].pc = "200"]
    /\ _sessions' =
           IF chats[c].session_id \in DOMAIN _sessions
           THEN [_sessions EXCEPT ![chats[c].session_id] =
                    add_message(@, "assistant", response, now)]
           ELSE _sessions
    /\ UNCHANGED <<now, issued, removed, last_call>>
    /\ UNCHANGED <<base_vars, client_vars, inside_process, clean_vars,
                   concurrent_vars, registry_vars, planner_vars>>

\* api/main.py lines 203-204: the planner raises; status 500
ChatFails(c) ==
    /\ c \in DOMAIN chats
    /\ chats[c].pc = "planning"
    /\ chats' = [chats EXCEPT ![c].pc = "500"]
    /\ UNCHANGED <<_sessions, now, issued, removed, last_call>>
    /\ UNCHANGED <<base_vars, client_vars, inside_process, clean_vars,
                   concurrent_vars, registry_vars, planner_vars>>

NextSessions ==
    \/ Tick
    \/ CreateSession
    \/ \E session_id \in AllIds : GetSession(session_id)
    \/ \E session_id \in AllIds \cup {NoId} : GetOrCreateSession(session_id)
    \/ \E session_id \in AllIds, message \in ChatMessages :
          ChatStart(session_id, message)
    \/ \E c \in 1..MaxChats, response \in ChatReplies : ChatReply(c, response)
    \/ \E c \in 1..MaxChats : ChatFails(c)

SpecSessions == InitSessions /\ [][NextSessions]_vars

\* ------------------------------------------------------------------------
\* get_client.  Agents are constructed inside request handlers (api/main.py
\* lines 29, 243, 274) and every constructor calls get_client; the handlers
\* of different requests run in different threads, and get_client takes no
\* lock, so a thread may be suspended between any two of its steps.
\* ------------------------------------------------------------------------

InitClient ==
    /\ ProcessIdle /\ NoText /\ NoInvocations /\ RegistryLoaded /\ PlannerIdle
    /\ ServicesIdle

\* line 301: if _llm_client is None
ClientCheck(t) ==
    /\ threads[t].pc = "idle"
    /\ threads' =
           [threads EXCEPT ![t].pc =
               IF _llm_client = 0 THEN "create" ELSE "return"]
    /\ UNCHANGED <<_llm_client, instances>>
    /\ UNCHANGED <<base_vars, session_vars, inside_process, clean_vars,
                   concurrent_vars, registry_vars, planner_vars>>

\* line 302, right-hand side: get_llm_client() builds a client
ClientCreate(t) ==
    /\ threads[t].pc = "create"
    /\ instances' = instances + 1
    /\ threads' = [threads EXCEPT ![t].pc = "assign", ![t].made = instances + 1]
    /\ UNCHANGED _llm_client
    /\ UNCHANGED <<base_vars, session_vars, inside_process, clean_vars,
                   concurrent_vars, registry_vars, planner_vars>>

\* line 302, assignment: the global is bound to the client just built
ClientAssign(t) ==
    /\ threads[t].pc = "assign"
    /\ _llm_client' = threads[t].made
    /\ threads' = [threads EXCEPT ![t].pc = "return"]
    /\ UNCHANGED instances
    /\ UNCHANGED <<base_vars, session_vars, inside_process, clean_vars,
                   concurrent_vars, registry_vars, planner_vars>>

\* line 303: return _llm_client
ClientReturn(t) ==
    /\ threads[t].pc = "return"
    /\ threads' = [threads EXCEPT ![t].pc = "done", ![t].got = _llm_client]
    /\ UNCHANGED <<_llm_client, instances>>
    /\ UNCHANGED <<base_vars, session_vars, inside_process, clean_vars,
                   concurrent_vars, registry_vars, planner_vars>>

NextClient ==
    \/ \E t \in Threads : ClientCheck(t)
    \/ \E t \in Threads : ClientCreate(t)
    \/ \E t \in Threads : ClientAssign(t)
    \/ \E t \in Threads : ClientReturn(t)

SpecClient == InitClient /\ [][NextClient]_vars

\* ------------------------------------------------------------------------
\* Properties
\* ------------------------------------------------------------------------

Terminal == pc \in {"returned", "raised"}
HasFlag == "max_iterations_reached" \in DOMAIN result

\* the response has no TOOL: and no ARGS: marker anywhere
NoToolSyntax(r) == \A i \in 1..Len(r) : ~IsToolMarker(r[i]) /\ ~IsArgsMarker(r[i])

\* the responses of the loop iterations (not of the forced final call)
LoopResponses == 1..(IF Len(responses) < MAX_ITERATIONS THEN Len(responses)
                      ELSE MAX_ITERATIONS)

\* C1: whatever the backend and the tools answer, process makes at most 8
\* loop iterations, executes at most 8 tools and issues at most 9 backend
\* calls (8 in the loop and the forced final one), and it is over once the
\* last of them is answered.
C1_BoundedLoop ==
    /\ iterations <= 8
    /\ Len(tool_calls) <= 8
    /\ Len(executed) <= 8
    /\ llm_calls <= 9
    /\ Len(responses) <= llm_calls
    /\ (pc = "await_llm" => llm_calls = iterations /\ Len(responses) = llm_calls - 1)
    /\ (pc = "await_final" => llm_calls = 9 /\ Len(responses) = 8)
    /\ (Len(responses) = 9 => Terminal)

\* C1 witness: a run that used the whole budget and returned
C1_Witness ==
    /\ pc = "returned"
    /\ iterations = 8
    /\ Len(executed) = 8
    /\ llm_calls = 9

\* C2 (as stated): when the first response has no tool-call syntax at all,
\* process returns after 1 iteration, with no tool call, no flag, and the
\* first response itself as the final answer.
C2_FirstResponseVerbatim ==
    (pc = "returned" /\ NoToolSyntax(responses[1])) =>
        /\ Len(responses) = 1
        /\ result.iterations = 1
        /\ result.tool_calls = <<>>
        /\ ~HasFlag
        /\ result.response = responses[1]

\* C2 (amended): when the first response holds no tool call, process returns
\* after exactly 1 iteration and 1 backend call, with no tool executed, empty
\* tool_calls and no flag; the final answer is the first response cleaned by
\* _clean_response: stripped of surrounding white space when it has no
\* tool-call syntax, and the first response itself when it has none to strip.
C2_FirstResponseCleaned ==
    (pc = "returned" /\ ~ParseOf[responses[1]].found) =>
        /\ Len(responses) = 1
        /\ llm_calls = 1
        /\ executed = <<>>
        /\ result.iterations = 1
        /\ result.tool_calls = <<>>
        /\ ~HasFlag
        /\ result.response = _clean_response(responses[1])
        /\ (NoToolSyntax(responses[1]) => result.response = Strip(responses[1]))
        /\ (NoToolSyntax(responses[1]) /\ Strip(responses[1]) = responses[1]
                => result.response = responses[1])

\* C2 witness: a plain first response with white space around it was returned
C2_Witness ==
    /\ pc = "returned"
    /\ NoToolSyntax(responses[1])
    /\ Strip(responses[1]) # responses[1]

\* every response of the loop held a tool call
AllToolCalls == \A i \in LoopResponses : ParseOf[responses[i]].found

\* C3: when every response of the loop holds a tool call, process returns
\* exactly at the bound: iterations = MAX_ITERATIONS, MAX_ITERATIONS records,
\* max_iterations_reached = TRUE; the counter never exceeds the bound.
C3_StopsAtBound ==
    /\ iterations <= 8
    /\ (pc = "await_final" => iterations = 8 /\ Len(tool_calls) = 8)
    /\ (pc = "returned" /\ AllToolCalls) =>
            /\ Len(responses) = 9
            /\ result.iterations = 8
            /\ Len(result.tool_calls) = 8
            /\ HasFlag
            /\ result.max_iterations_reached = TRUE

\* C3 witness: nine responses, the eight of the loop all tool calls
C3_Witness ==
    /\ pc = "returned"
    /\ Len(responses) = 9
    /\ AllToolCalls

\* C4 (as stated): after the budget is exhausted there is exactly one more
\* backend call, no tool is run for its response, and that response is
\* returned as the answer, with the flag.
C4_ForcedAnswerVerbatim ==
    (pc = "returned" /\ Len(responses) = 9) =>
        /\ llm_calls = 9
        /\ Len(executed) = 8
        /\ HasFlag
        /\ result.response = responses[9]

\* C4 (amended): after the budget is exhausted there is exactly one more
\* backend call, asked for the final answer on the accumulated context; no
\* tool is run for its response even if it holds a tool call; the answer
\* returned is that response cleaned by _clean_response (lines of tool-call
\* syntax removed, surrounding white space stripped), with the flag set.
C4_ForcedAnswerCleaned ==
    /\ (pc = "await_final" =>
            /\ llm_calls = 9
            /\ prompt = FinalPrompt(accumulated_context))
    /\ (pc = "returned" /\ Len(responses) = 9) =>
            /\ llm_calls = 9
            /\ Len(executed) = 8
            /\ Len(result.tool_calls) = 8
            /\ HasFlag
            /\ result.max_iterations_reached = TRUE
            /\ result.response = _clean_response(responses[9])
            /\ (NoToolSyntax(responses[9]) => result.response = Strip(responses[9]))

\* C4 witness: the forced final response held a tool call, and none was run
C4_Witness ==
    /\ pc = "returned"
    /\ Len(responses) = 9
    /\ ParseOf[responses[9]].found
    /\ Len(executed) = 8

\* C5 (as stated): every result carries the answer, the records, the
\* iteration count and the budget-exhaustion flag, and the flag is TRUE
\* exactly when the loop ended by exhausting the budget, FALSE otherwise.
C5_FlagOnBothPaths ==
    pc = "returned" =>
        /\ {"response", "tool_calls", "iterations", "max_iterations_reached"}
               \subseteq DOMAIN result
        /\ (result.max_iterations_reached <=> Len(responses) = MAX_ITERATIONS + 1)

\* C5 (amended): every result carries the answer, the ordered records and
\* the iteration count; the flag max_iterations_reached is carried, with the
\* value TRUE, exactly when the loop ended by exhausting the budget (the
\* forced final call was made), and is absent from the result of a natural
\* final answer.
C5_FlagOnForcedPathOnly ==
    pc = "returned" =>
        /\ {"response", "tool_calls", "iterations"} \subseteq DOMAIN result
        /\ result.tool_calls = tool_calls
        /\ result.iterations = iterations
        /\ (HasFlag <=> Len(responses) = MAX_ITERATIONS + 1)
        /\ (HasFlag => result.max_iterations_reached = TRUE)
        /\ (~HasFlag =>
                /\ DOMAIN result = {"response", "tool_calls", "iterations"}
                /\ ~ParseOf[responses[Len(responses)]].found)

\* C5 witness: a natural final answer given on the last iteration of the
\* budget, returned without the flag
C5_Witness ==
    /\ pc = "returned"
    /\ result.iterations = MAX_ITERATIONS
    /\ ~HasFlag

\* names and argument mappings execute_tool is tried on
UnknownNames == {"nonexistent_tool", "Get_Weather", "ARGS", ""}
ArgMaps == {EmptyMap} \cup {JsonObjects[b] : b \in DOMAIN JsonObjects}

\* C6 (as stated): for a name that is not in the registry execute_tool
\* returns {error: "unknown tool: <name>"} and does not raise.
C6_UnknownToolLowerCase ==
    \A i \in 1..Len(tool_calls) :
            tool_calls[i].tool \notin RegisteredNames =>
                tool_calls[i].result =
                    [error |-> Str("unknown tool: " \o tool_calls[i].tool)]

\* C6 (amended): for every name that is not in the registry and every
\* argument mapping, execute_tool returns the mapping
\* {error: "Unknown tool: <name>"}, naming the requested tool, and does not
\* raise.
C6_UnknownToolError ==
    /\ \A n \in UnknownNames, a \in ArgMaps, e \in Env :
            /\ n \notin RegisteredNames
            /\ execute_tool(n, a, e) = Returned([error |-> Str("Unknown tool: " \o n)])
    /\ exception # "ToolException"
    /\ \A i \in 1..Len(tool_calls) :
            tool_calls[i].tool \notin RegisteredNames =>
                tool_calls[i].result =
                    [error |-> Str("Unknown tool: " \o tool_calls[i].tool)]

\* C6 witness: an unregistered tool was requested and its error recorded
C6_Witness ==
    /\ tool_calls # <<>>
    /\ tool_calls[1].tool = "nonexistent_tool"
    /\ DOMAIN tool_calls[1].result = {"error"}

\* C7: for every registered tool and every argument mapping, a failure
\* raised by the tool's implementation is caught by execute_tool and
\* returned as {error: <message>}; execute_tool always returns a mapping and
\* never lets an exception reach its caller.
C7_ExecutorNeverRaises ==
    /\ \A n \in RegisteredNames, a \in ArgMaps, e \in Env :
            /\ ~execute_tool(n, a, e).raised
            /\ Dispatch(n, a, e).raised =>
                    execute_tool(n, a, e).value =
                        [error |-> Str(Dispatch(n, a, e).message)]
            /\ (n \in {"search_web", "search_knowledge"} /\ e = "raises") =>
                    DOMAIN execute_tool(n, a, e).value = {"error"}
    /\ exception # "ToolException"
    /\ Len(tool_calls) <= Len(executed)
    /\ \A i \in 1..Len(executed) :
            (i <= Len(tool_calls) /\ executed[i].tool = "calculate_budget"
               /\ ~IsNumber(Get(executed[i].arguments, "days", Int("1")))) =>
                DOMAIN tool_calls[i].result = {"error"}

\* C7 witness: calculate_budget raised on days = "three", and the call was
\* recorded with an error mapping
C7_Witness ==
    /\ tool_calls # <<>>
    /\ tool_calls[1].tool = "calculate_budget"
    /\ Dispatch("calculate_budget", tool_calls[1].arguments, "ok").raised
    /\ DOMAIN tool_calls[1].result = {"error"}

\* C8 (as stated): no outcome of a tool call aborts the loop; process fails
\* only when a Completion Backend call fails, and every dispatched call is
\* recorded and has its block in the context.
C8_ToolOutcomeNeverAborts ==
    /\ pc = "raised" => exception = "CompletionBackendFailure"
    /\ Len(tool_calls) = Len(executed)
    /\ Len(accumulated_context) = 5 * Len(executed)
                                    + (IF pc = "idle" THEN 0 ELSE 1)

\* the lines of the accumulated context that hold the block of the i-th call
BlockOf(i) == SubSeq(accumulated_context, 5 * i - 3, 5 * i + 1)

UnknownToolRecord(rec) ==
    /\ rec.tool \notin RegisteredNames
    /\ DOMAIN rec.result = {"error"}

\* C9: a request for a tool that is not in the registry is recorded with the
\* executor's error, its block is appended to the context in the form of any
\* other result, and the loop goes on; when every response asks for such a
\* tool the loop stops at the bound, with the flag and one unknown-tool
\* error record per iteration.
C9_UnknownToolFedBack ==
    /\ \A i \in 1..Len(executed) :
            executed[i].tool \notin RegisteredNames =>
                /\ i <= Len(tool_calls)
                /\ tool_calls[i].tool = executed[i].tool
                /\ tool_calls[i].arguments = executed[i].arguments
                /\ UnknownToolRecord(tool_calls[i])
                /\ 5 * i + 1 <= Len(accumulated_context)
                /\ BlockOf(i) =
                      <<Line("--- Tool Call ---", <<>>),
                        Line("Tool: ", <<executed[i].tool>>),
                        Line("Arguments: ", json_dumps(executed[i].arguments)),
                        Line("Result: ", json_dumps_indent(tool_calls[i].result)),
                        Line("--- End Tool Call ---", <<>>)>>
                /\ (i = Len(executed) =>
                        \/ pc \in {"await_llm", "await_final", "returned"}
                        \/ exception = "CompletionBackendFailure")
                /\ (i = Len(executed) /\ pc = "await_llm" => iterations = i + 1)
    /\ (pc = "returned"
          /\ \A i \in LoopResponses :
                /\ ParseOf[responses[i]].found
                /\ ParseOf[responses[i]].name \notin RegisteredNames) =>
            /\ HasFlag
            /\ result.iterations = MAX_ITERATIONS
            /\ Len(result.tool_calls) = MAX_ITERATIONS
            /\ \A i \in 1..MAX_ITERATIONS : UnknownToolRecord(result.tool_calls[i])

\* C9 witness: the model asked for an unregistered tool on every iteration
\* and process returned
C9_Witness ==
    /\ pc = "returned"
    /\ Len(result.tool_calls) = MAX_ITERATIONS
    /\ \A i \in 1..MAX_ITERATIONS : UnknownToolRecord(result.tool_calls[i])

\* the response names a tool, and its argument block is missing or does not
\* parse as structured data
NamesToolWithoutArguments(r) ==
    /\ ToolMatch(r) # 0
    /\ IF ArgsMatch(r) = 0 THEN TRUE
       ELSE ~json_loads(ReplaceQuotes(ArgsGroup(r))).ok

OmitsRequired(i) ==
    /\ executed[i].tool \in RegisteredNames
    /\ ~(RequiredOf(executed[i].tool) \subseteq DOMAIN executed[i].arguments)

\* C11: a call of a registered tool that omits an argument declared as
\* required is rejected by the executor with a structured error result,
\* the tool itself is not invoked (no result of the tool is recorded), and
\* nothing is raised.
C11_MissingRequiredRejected ==
    /\ exception # "ToolException"
    /\ \A i \in 1..Len(tool_calls) :
            OmitsRequired(i) => DOMAIN tool_calls[i].result = {"error"}

\* the places of the response where a tool is named
ToolPlaces(r) == {i \in 1..Len(r) : ToolMatchAt(r, i)}

\* the tool named at place i of the response
NameAt(r, i) == WordRun(r, SkipSpace(r, i + 1))

\* the first tool name occurring in the text
FirstToolName(r) ==
    NameAt(r, CHOOSE i \in ToolPlaces(r) : \A k \in ToolPlaces(r) : i <= k)

\* C12: a response with one or more tool calls leads to exactly one
\* dispatch, of the first tool name occurring in its text: the dispatched
\* calls are, one for one and in order, the first names of the responses
\* that held a tool call, so that a later name in a response is dispatched
\* neither in that iteration nor in a later one.
C12_OnlyFirstToolDispatched ==
    /\ Len(executed) <= Cardinality(LoopResponses)
    /\ \A i \in LoopResponses :
            ToolPlaces(responses[i]) # {} =>
                /\ i <= Len(executed)
                /\ executed[i].tool = FirstToolName(responses[i])
    /\ \A j \in 1..Len(executed) :
            /\ j <= Len(responses)
            /\ ToolPlaces(responses[j]) # {}
            /\ executed[j].tool = FirstToolName(responses[j])

\* C12 witness: a response named get_weather and then search_web; only
\* get_weather was dispatched, and the next response ended the invocation
C12_Witness ==
    /\ pc = "returned"
    /\ Len(responses) = 2
    /\ Cardinality({NameAt(responses[1], i) : i \in ToolPlaces(responses[1])}) = 2
    /\ executed = <<[tool |-> "get_weather", arguments |-> JsonObjects[BodyParis]]>>

\* the invocation is over and its last Completion Backend call was never
\* answered: the call failed
BackendCallFailed == Terminal /\ llm_calls > Len(responses)

\* C13: when a Completion Backend call fails, on any iteration or on the
\* forced final call, process fails as a whole with that failure: nothing
\* is returned, and the records gathered before are neither returned nor
\* kept in the agent (conversation_history holds the user's message only).
C13_BackendFailurePropagates ==
    BackendCallFailed =>
        /\ pc = "raised"
        /\ exception = "CompletionBackendFailure"
        /\ result = NoResult
        /\ conversation_history =
              <<[role |-> "user", content |-> <<user_message>>]>>

\* C13 witness: the backend failed on iteration 3, after two tool calls
\* had been recorded
C13_Witness ==
    /\ BackendCallFailed
    /\ exception = "CompletionBackendFailure"
    /\ iterations = 3
    /\ Len(tool_calls) = 2

\* a is a prefix of b
IsPrefix(a, b) == Len(a) <= Len(b) /\ SubSeq(b, 1, Len(a)) = a

\* the loop got a plain answer as its response number Len(responses)
PlainAnswerInLoop ==
    /\ Len(responses) \in 1..MAX_ITERATIONS
    /\ ~ParseOf[responses[Len(responses)]].found

\* the records are those of the responses 1..k, in order
RecordsFollowResponses(records, k) ==
    /\ Len(records) = k
    /\ \A i \in 1..k :
            /\ ParseOf[responses[i]].found
            /\ records[i].tool = ParseOf[responses[i]].name
            /\ records[i].arguments = ParseOf[responses[i]].arguments

\* C14: after tool calls on the first k responses (0 <= k < MAX_ITERATIONS)
\* and a plain answer on response k+1, process has returned with k+1
\* iterations and k records, the i-th holding the tool name and the
\* arguments parsed from the i-th response; and within an invocation every
\* step leaves the records it found in place, adding at most one at the end.
C14_RecordsInIterationOrder ==
    /\ [](PlainAnswerInLoop =>
            /\ pc = "returned"
            /\ result.iterations = Len(responses)
            /\ RecordsFollowResponses(result.tool_calls, Len(responses) - 1))
    /\ [][pc # "idle" =>
            /\ IsPrefix(tool_calls, tool_calls')
            /\ Len(tool_calls') <= Len(tool_calls) + 1]_vars

\* C14 witness: two tool calls and then a plain answer, returned after
\* three iterations with two records
C14_Witness ==
    /\ pc = "returned"
    /\ PlainAnswerInLoop
    /\ result.iterations = 3
    /\ Len(result.tool_calls) = 2

\* the five lines written for a recorded call
BlockFor(rec) ==
    <<Line("--- Tool Call ---", <<>>),
      Line("Tool: ", <<rec.tool>>),
      Line("Arguments: ", json_dumps(rec.arguments)),
      Line("Result: ", json_dumps_indent(rec.result)),
      Line("--- End Tool Call ---", <<>>)>>

\* the request followed by the blocks of the first n recorded calls
RECURSIVE ContextOf(_, _)
ContextOf(records, n) ==
    IF n = 0 THEN <<Line("User request: ", <<user_message>>)>>
    ELSE ContextOf(records, n - 1) \o BlockFor(records[n])

\* process stands at a backend call of the loop, at the forced final call,
\* or has returned
AtIteration == pc \in {"await_llm", "await_final", "returned"}

\* C15: at every iteration the accumulated context is the user's request
\* followed by exactly one block per tool call completed so far, in
\* dispatch order, and every step of an invocation leaves the context it
\* found as a prefix of the context it leaves.
C15_ContextAppendOnly ==
    /\ [](AtIteration =>
            /\ Len(tool_calls) = Len(executed)
            /\ \A i \in 1..Len(executed) :
                    /\ tool_calls[i].tool = executed[i].tool
                    /\ tool_calls[i].arguments = executed[i].arguments
            /\ accumulated_context = ContextOf(tool_calls, Len(tool_calls))
            /\ IsPrefix(accumulated_context, prompt))
    /\ [][pc # "idle" => IsPrefix(accumulated_context, accumulated_context')]_vars

\* C15 witness: the context of the third iteration, with the blocks of two
\* completed calls after the request
C15_Witness ==
    /\ pc = "await_llm"
    /\ iterations = 3
    /\ Len(accumulated_context) = 11
    /\ accumulated_context[3].body = <<executed[1].tool>>
    /\ accumulated_context[8].body = <<executed[2].tool>>

\* A reader of the prompt: the tool name of the line "Tool: ..." and the
\* mapping json.loads reads from the line "Arguments: ..." of the block of
\* the i-th call.
ReadBack(lines, i) ==
    LET block == SubSeq(lines, 5 * i - 3, 5 * i + 1) IN
    [label |-> <<block[2].label, block[3].label>>,
     tool |-> block[2].body[1],
     readable |-> json_loads(block[3].body).ok,
     arguments |-> json_loads(block[3].body).value]

ToolMarkersLeadLines(t) ==
    \A i \in 1..Len(SplitLines(t)) :
        (\E j \in 1..Len(SplitLines(t)[i]) : IsToolMarker(SplitLines(t)[i][j]))
            => LineIsTool(SplitLines(t)[i])

\* C17 (as stated): cleaning a cleaned text changes nothing, and the parser
\* finds no tool call in a cleaned text.
C17_StrippedHasNoToolCall ==
    /\ Len(clean_out) = 2 => clean_out[2] = clean_out[1]
    /\ parse_out # <<>> => ~parse_out[1].after

\* C17 (amended): cleaning a cleaned text changes nothing; the parser finds
\* no tool call in the cleaned text when it found none in the text, or when
\* TOOL: stands only at the start of lines.
C17_StripIdempotent ==
    /\ Len(clean_out) = 2 => clean_out[2] = clean_out[1]
    /\ parse_out # <<>> =>
            /\ ~parse_out[1].before => ~parse_out[1].after
            /\ ToolMarkersLeadLines(text) => ~parse_out[1].after

\* C17 witness: a text with a TOOL: line was cleaned twice and parsed, and
\* the cleaner had removed something
C17_Witness ==
    /\ Len(clean_out) = 2
    /\ parse_out # <<>>
    /\ parse_out[1].before
    /\ ~parse_out[1].after
    /\ clean_out[1] # <<>>
    /\ Len(clean_out[1]) < Len(text) - 1

\* The records an invocation makes on its own of the first n answers of its
\* script.
OwnRecords(f, n) ==
    [i \in 1..n |->
        [tool |-> ParseOf[f.script[i].r].name,
         arguments |-> ParseOf[f.script[i].r].arguments,
         result |-> execute_tool(ParseOf[f.script[i].r].name,
                                 ParseOf[f.script[i].r].arguments,
                                 f.script[i].env).value]]

\* the context an invocation builds on its own from its request and the
\* first n answers of its script
RECURSIVE OwnContext(_, _)
OwnContext(f, n) ==
    IF n = 0 THEN <<Line("User request: ", <<f.user_message>>)>>
    ELSE OwnContext(f, n - 1) \o BlockFor(OwnRecords(f, n)[n])

\* the result of an invocation that runs alone and gets the answers the
\* frame has got
AloneResult(f) ==
    IF f.answered = MAX_ITERATIONS + 1
    THEN [response |-> CleanOf[f.script[f.answered].r],
          tool_calls |-> OwnRecords(f, MAX_ITERATIONS),
          iterations |-> MAX_ITERATIONS,
          max_iterations_reached |-> TRUE]
    ELSE [response |-> CleanOf[f.script[f.answered].r],
          tool_calls |-> OwnRecords(f, f.answered - 1),
          iterations |-> f.answered]

\* the number of tool calls among the answers the frame has got
OwnCalls(f) ==
    Cardinality({i \in 1..f.answered :
                    i <= MAX_ITERATIONS /\ ParseOf[f.script[i].r].found})

\* C18: however two invocations are interleaved at their backend calls, on
\* one agent or on two, the accumulated context, the iteration counter and
\* the records of each hold its own request and its own tool calls only,
\* and the result of each is the result it gives when it runs alone with
\* the same responses.
C18_InvocationsIndependent ==
    \A k \in Invocations :
        frames[k].pc \in {"await_llm", "await_final", "returned"} =>
            /\ frames[k].tool_calls = OwnRecords(frames[k], OwnCalls(frames[k]))
            /\ frames[k].accumulated_context =
                    OwnContext(frames[k], OwnCalls(frames[k]))
            /\ (frames[k].pc = "await_llm" =>
                    frames[k].iterations = frames[k].answered + 1)
            /\ (frames[k].pc = "await_final" =>
                    /\ frames[k].iterations = MAX_ITERATIONS
                    /\ frames[k].answered = MAX_ITERATIONS)
            /\ (frames[k].pc = "returned" =>
                    frames[k].result = AloneResult(frames[k]))

\* C18 witness: two invocations on one agent, both begun before either
\* returned, have returned with the records of different tools
C18_Witness ==
    /\ agent_of[1] = agent_of[2]
    /\ \A k \in Invocations :
            /\ frames[k].pc = "returned"
            /\ frames[k].result.tool_calls # <<>>
    /\ frames[1].result.tool_calls[1].tool # frames[2].result.tool_calls[1].tool
    /\ frames[1].user_message # frames[2].user_message
    /\ histories[1][1].role = "user"
    /\ histories[1][2].role = "user"

\* the names of TOOL_DEFINITIONS as loaded, in registration order
RegistrationOrder == [i \in 1..Len(TOOL_DEFINITIONS) |-> TOOL_DEFINITIONS[i].name]

\* every name occurs exactly once in the sequence
EachOnce(names) ==
    /\ {names[i] : i \in 1..Len(names)} = RegisteredNames
    /\ \A i, j \in 1..Len(names) : names[i] = names[j] => i = j

\* the tool names of a text of get_tools_prompt, in its order
DescribedNames(d) == [i \in 1..Len(d) |-> d[i].tool]

\* C19: the registry is never changed, by process, execute_tool,
\* get_tools_prompt or list_tool_names, and every call of get_tools_prompt
\* and of list_tool_names, the one process makes for its system prompt
\* included, lists each registered tool exactly once, in registration
\* order, and gives what the call before gave.
C19_RegistryReadOnly ==
    /\ registry = TOOL_DEFINITIONS
    /\ \A i \in 1..Len(listed) :
            /\ listed[i] = RegistrationOrder
            /\ EachOnce(listed[i])
            /\ listed[i] = listed[1]
    /\ \A i \in 1..Len(described) :
            /\ DescribedNames(described[i]) = RegistrationOrder
            /\ EachOnce(DescribedNames(described[i]))
            /\ described[i] = described[1]
    /\ llm_calls > 0 =>
            /\ DescribedNames(system_prompt) = RegistrationOrder
            /\ \A i \in 1..Len(described) : described[i] = system_prompt

\* C19 witness: both readers were called twice and process ran a tool and
\* returned
C19_Witness ==
    /\ Len(listed) = 2
    /\ Len(described) = 2
    /\ pc = "returned"
    /\ executed # <<>>

\* C20: an invocation that fails, or is cancelled, at a Completion Backend
\* call leaves conversation_history as it was before the invocation
\* started (empty, for the first invocation on an agent).
C20_FailureLeavesHistoryUntouched ==
    (pc = "raised" /\ exception = "CompletionBackendFailure") =>
        conversation_history = <<>>

\* ------------------------------------------------------------------------
\* The argument block of a tool call
\* ------------------------------------------------------------------------

\* the places of the argument blocks of a text
ArgsPlaces(r) == {i \in 1..Len(r) : ArgsMatchAt(r, i)}

\* the place of the first tool name of a text
FirstToolPlace(r) == CHOOSE i \in ToolPlaces(r) : \A k \in ToolPlaces(r) : i <= k

\* the places of the argument blocks that follow the first tool name and
\* come before the next tool name
OwnArgsPlaces(r) ==
    {i \in ArgsPlaces(r) :
        /\ i > FirstToolPlace(r)
        /\ \A k \in ToolPlaces(r) : k > FirstToolPlace(r) => i < k}

\* the mapping the argument block at place i denotes
ArgumentsAt(r, i) ==
    LET open == SkipSpace(r, i + 1)
        loaded == json_loads(ReplaceQuotes(SubSeq(r, open, FirstClose(r, open))))
    IN IF loaded.ok THEN loaded.value ELSE EmptyMap

\* the arguments of the block that follows the first tool name
OwnArguments(r) ==
    IF OwnArgsPlaces(r) = {} THEN EmptyMap
    ELSE ArgumentsAt(r, CHOOSE i \in OwnArgsPlaces(r) :
                            \A k \in OwnArgsPlaces(r) : i <= k)

\* C21: the arguments of a tool call are those of the argument block that
\* follows the first tool name and comes before the next tool name; a
\* block before the first tool name, or after a later tool name, is not
\* paired with the first tool name.
C21_ArgumentsFollowToolName ==
    (parsed # <<>> /\ parsed[1].found) =>
        parsed[1].arguments = OwnArguments(text)

\* ------------------------------------------------------------------------
\* A response that names no tool
\* ------------------------------------------------------------------------

\* the lines of a text that begin with a TOOL: or an ARGS: marker
MarkerLines(r) ==
    {i \in 1..Len(SplitLines(r)) :
        LineIsTool(SplitLines(r)[i]) \/ LineIsArgs(SplitLines(r)[i])}

RECURSIVE OtherLines(_)
OtherLines(lines) ==
    IF lines = <<>> THEN <<>>
    ELSE IF LineIsTool(Head(lines)) \/ LineIsArgs(Head(lines))
         THEN OtherLines(Tail(lines))
    ELSE <<Head(lines)>> \o OtherLines(Tail(lines))

\* line i begins with "{" and comes straight after a TOOL: line, ARGS: lines
\* between them aside
BraceAfterTool(lines, i) ==
    /\ LineStartsBrace(lines[i])
    /\ \E j \in 1..(i - 1) :
            /\ LineIsTool(lines[j])
            /\ \A k \in (j + 1)..(i - 1) : LineIsArgs(lines[k])

\* the lines that begin with neither marker and are no such "{" line
RECURSIVE KeptFrom(_, _)
KeptFrom(lines, i) ==
    IF i > Len(lines) THEN <<>>
    ELSE IF LineIsTool(lines[i]) \/ LineIsArgs(lines[i]) \/ BraceAfterTool(lines, i)
         THEN KeptFrom(lines, i + 1)
    ELSE <<lines[i]>> \o KeptFrom(lines, i + 1)

\* C23 (as stated): the answer returned for a last response has no line that
\* begins with a TOOL: or ARGS: marker, its lines are the other lines of the
\* response in their order (surrounding white space aside), and the parser
\* finds no tool call in it.
C23_OnlyMarkerLinesRemoved ==
    /\ clean_out # <<>> =>
            /\ MarkerLines(clean_out[1]) = {}
            /\ clean_out[1] = Strip(JoinLines(OtherLines(SplitLines(text))))
    /\ parse_out # <<>> => ~parse_out[1].after

\* C23 (amended): the answer returned for a last response has no line that
\* begins with a TOOL: or ARGS: marker; it is made of the lines of the
\* response that begin with neither marker and are not a "{" line straight
\* after a TOOL: line, in their order, joined and stripped of surrounding
\* white space; and the parser finds no tool call in it when it found none
\* in the response, which is the case on every natural finish.
C23_MarkerLinesRemoved ==
    /\ clean_out # <<>> =>
            /\ MarkerLines(clean_out[1]) = {}
            /\ clean_out[1] = Strip(JoinLines(KeptFrom(SplitLines(text), 1)))
    /\ parse_out # <<>> => (~parse_out[1].before => ~parse_out[1].after)

\* C23 witness: a response with a line of text and a TOOL: line that names
\* a tool was cleaned and parsed: the line of text is the answer
C23_Witness ==
    /\ clean_out # <<>>
    /\ parse_out # <<>>
    /\ MarkerLines(text) # {}
    /\ clean_out[1] # <<>>
    /\ parse_out[1].before
    /\ ~parse_out[1].after

\* ------------------------------------------------------------------------
\* The prompt of an iteration
\* ------------------------------------------------------------------------

\* the instruction to go on with a tool call or to give the final answer
Instruction ==
    <<Line("Based on the information gathered, continue helping the user.", <<>>),
      Line("If you have enough information, provide your FINAL ANSWER.", <<>>),
      Line("If you need more information, call another tool.", <<>>)>>

\* C24 (as stated): the prompt of every iteration, the first included, is
\* the user's request, the blocks of the tool calls of the earlier
\* iterations in their order, and the instruction to call a tool or to give
\* the final answer.
C24_InstructionInEveryPrompt ==
    pc = "await_llm" =>
        prompt = ContextOf(tool_calls, iterations - 1) \o Instruction

\* C24 (amended): the prompt of every iteration is the user's request
\* followed by the blocks of the tool calls of all earlier iterations in
\* their order; from the second iteration on it ends with the instruction
\* to give the final answer or to call another tool, and the prompt of the
\* first iteration is the request alone.
C24_InstructionAfterToolCalls ==
    pc = "await_llm" =>
        /\ Len(tool_calls) = iterations - 1
        /\ prompt = ContextOf(tool_calls, iterations - 1)
                        \o (IF iterations > 1 THEN Instruction ELSE <<>>)
        /\ (iterations = 1 => prompt = <<Line("User request: ", <<user_message>>)>>)

\* C24 witness: the prompt of the third iteration, with the blocks of two
\* tool calls and the instruction at its end
C24_Witness ==
    /\ pc = "await_llm"
    /\ iterations = 3
    /\ Len(prompt) = 14
    /\ prompt[3].body = <<executed[1].tool>>
    /\ prompt[8].body = <<executed[2].tool>>
    /\ prompt[14] = Instruction[3]

\* ------------------------------------------------------------------------
\* The order of backend calls and tool executions
\* ------------------------------------------------------------------------

\* the backend calls that have returned, and the one that is pending
AnsweredCalls == Len(responses)
Pending == pc \in {"await_llm", "await_final"}

\* C25: the events of an invocation are sequential and alternate.  A
\* backend call is issued only when every earlier call has returned and the
\* tool of every earlier iteration has been executed; the i-th tool is
\* executed for the i-th answer, after it returned; an iteration has one
\* backend call and at most one tool execution.
C25_EventsAlternate ==
    /\ pc # "idle" =>
            \* one call per iteration, and the forced final call
            /\ llm_calls = iterations + (IF pc = "await_final" \/ HasFlag
                                           \/ (pc = "raised" /\ llm_calls = 9)
                                         THEN 1 ELSE 0)
            \* at most one call is outstanding
            /\ llm_calls = AnsweredCalls + (IF Pending THEN 1 ELSE 0)
                  \/ (pc = "raised" /\ llm_calls = AnsweredCalls + 1)
            \* a tool is executed only for an answer that has returned, and
            \* at most one for each answer of the loop
            /\ Len(executed) <= AnsweredCalls
            /\ \A i \in 1..Len(executed) :
                    /\ i <= MAX_ITERATIONS
                    /\ ToolPlaces(responses[i]) # {}
                    /\ executed[i].tool = FirstToolName(responses[i])
            \* the (i+1)-th call is issued after the i-th tool was executed
            /\ llm_calls <= Len(executed) + 1
    /\ Pending => Len(executed) = llm_calls - 1

\* C25 witness: the third backend call is pending, two answers have
\* returned and two tools have been executed
C25_Witness ==
    /\ pc = "await_llm"
    /\ llm_calls = 3
    /\ Len(responses) = 2
    /\ Len(executed) = 2

\* ------------------------------------------------------------------------
\* The pipeline of create_plan
\* ------------------------------------------------------------------------

\* the names of the calls create_plan has made, in order
StepNames == [i \in 1..Len(plan_steps) |-> plan_steps[i].step]

\* the pipeline, given whether it extracts and whether it looks a place up
Pipeline(extracts, looks_up) ==
    (IF extracts THEN <<"extract_preferences">> ELSE <<>>)
        \o (IF looks_up THEN <<"get_place_info">> ELSE <<>>)
        \o <<"estimate_trip_budget", "process">>

PlanKeys == {"preferences", "budget_analysis", "locations", "itinerary"}

\* the preferences name a destination
HasDestination ==
    "destination" \in DOMAIN preferences /\ preferences["destination"] # Null

\* the preferences name a destination that is not the empty string
HasNonEmptyDestination ==
    HasDestination /\ preferences["destination"] # Str("")

\* what holds of the plan on return and on failure, whatever the pipeline
PlanOutcome ==
    /\ plan_pc = "returned" =>
            /\ DOMAIN plan_returned = PlanKeys
            /\ plan_returned.preferences = preferences
            /\ DOMAIN plan_returned.budget_analysis # {}
            /\ plan_returned.budget_analysis.duration_days = 7
            /\ Len(plan_returned.locations) =
                  Cardinality({i \in 1..Len(plan_steps) :
                                  plan_steps[i].step = "get_place_info"})
            /\ Cardinality({i \in 1..Len(plan_steps) :
                                plan_steps[i].step = "process"}) = 1
            /\ plan_exception = NoException
    /\ plan_pc = "raised" =>
            /\ plan_returned = NoPlan
            /\ plan_exception # NoException
    /\ plan_pc \notin {"returned"} => plan_returned = NoPlan

ForcedPath == Len(responses) = MAX_ITERATIONS + 1

\* C27: on every return the counts agree with the path.  After a natural
\* finish the records are one fewer than the iterations and the backend
\* was called once per iteration; after a forced finish there are
\* MAX_ITERATIONS records and iterations, and MAX_ITERATIONS + 1 backend
\* calls.  A plain answer on the last iteration of the budget is a natural
\* finish: no forced call and no flag.
C27_CountsAgreeWithPath ==
    pc = "returned" =>
        /\ result.iterations = iterations
        /\ result.tool_calls = tool_calls
        /\ IF ForcedPath
           THEN /\ result.iterations = MAX_ITERATIONS
                /\ Len(result.tool_calls) = MAX_ITERATIONS
                /\ llm_calls = MAX_ITERATIONS + 1
                /\ HasFlag
           ELSE /\ result.iterations \in 1..MAX_ITERATIONS
                /\ Len(result.tool_calls) = result.iterations - 1
                /\ llm_calls = result.iterations
                /\ Len(responses) = result.iterations
                /\ ~HasFlag
        /\ (ToolPlaces(responses[Len(responses)]) = {}
                /\ Len(responses) = MAX_ITERATIONS) =>
                    /\ llm_calls = MAX_ITERATIONS
                    /\ Len(result.tool_calls) = MAX_ITERATIONS - 1
                    /\ ~HasFlag

\* C27 witness: seven tool calls and a plain answer on the last iteration
\* of the budget
C27_Witness ==
    /\ pc = "returned"
    /\ Len(responses) = MAX_ITERATIONS
    /\ ToolPlaces(responses[MAX_ITERATIONS]) = {}
    /\ Len(result.tool_calls) = MAX_ITERATIONS - 1
    /\ llm_calls = MAX_ITERATIONS

\* ------------------------------------------------------------------------
\* The conversation history after a call that returned
\* ------------------------------------------------------------------------

\* C28: after a call of process that returned, on either path, the history
\* has grown by two entries: the user's message, and an assistant entry
\* that holds the answer returned.
C28_HistoryGrowsByTwo ==
    pc = "returned" =>
        conversation_history =
            <<[role |-> "user", content |-> <<user_message>>],
              [role |-> "assistant", content |-> result.response]>>

\* ------------------------------------------------------------------------
\* The result and the conversation history
\* ------------------------------------------------------------------------

\* invocation k has begun and its backend has not failed
Answering(k) ==
    /\ frames[k].pc # "idle"
    /\ frames[k].exception # "CompletionBackendFailure"

\* C29: two agents, whatever their conversation histories, that are given
\* the same message and whose backends and tools have given the same
\* answers so far stand at the same point with the same prompt, the same
\* records and context, and, once returned, the same result.
C29_ResultIgnoresHistory ==
    \A j, k \in Invocations :
        (/\ Answering(j) /\ Answering(k)
         /\ frames[j].script = frames[k].script
         /\ frames[j].user_message = frames[k].user_message
         /\ frames[j].answered = frames[k].answered) =>
            /\ frames[j].pc = frames[k].pc
            /\ frames[j].prompt = frames[k].prompt
            /\ frames[j].tool_calls = frames[k].tool_calls
            /\ frames[j].accumulated_context = frames[k].accumulated_context
            /\ frames[j].iterations = frames[k].iterations
            /\ frames[j].result = frames[k].result
            /\ frames[j].exception = frames[k].exception

\* C29 witness: two agents whose histories differ have returned for the
\* same message, after a tool call
C29_Witness ==
    /\ agent_of[1] # agent_of[2]
    /\ Len(histories[1]) # Len(histories[2])
    /\ frames[1].user_message = frames[2].user_message
    /\ \A k \in Invocations :
            /\ frames[k].pc = "returned"
            /\ frames[k].result.tool_calls # <<>>

\* ------------------------------------------------------------------------
\* The registry and the dispatcher
\* ------------------------------------------------------------------------

\* the error execute_tool returns for a name it has no branch for
UnknownToolError(n) == [error |-> Str("Unknown tool: " \o n)]

\* the names execute_tool is tried on: those of the registry and others
CandidateNames == RegisteredNames \cup UnknownNames

\* the names among them that execute_tool passes on to an implementation
DispatchedNames ==
    {n \in CandidateNames :
        \A a \in ArgMaps, e \in Env : execute_tool(n, a, e).value # UnknownToolError(n)}

\* C30: the names of TOOL_DEFINITIONS are pairwise distinct, execute_tool
\* passes every one of them on to an implementation and never answers it
\* with the unknown-tool error, and it passes on no name that is not in
\* TOOL_DEFINITIONS; so a recorded call has the unknown-tool error exactly
\* when its tool is not in the registry.
C30_RegistryMatchesDispatcher ==
    /\ \A i, j \in 1..Len(registry) : registry[i].name = registry[j].name => i = j
    /\ DispatchedNames = {registry[i].name : i \in 1..Len(registry)}
    /\ \A i \in 1..Len(tool_calls) :
            tool_calls[i].result = UnknownToolError(tool_calls[i].tool)
                <=> tool_calls[i].tool \notin {registry[j].name : j \in 1..Len(registry)}

\* C30 witness: a call of a tool that is not in the registry and a call of
\* one that is have been recorded, the first with the unknown-tool error
C30_Witness ==
    /\ Len(tool_calls) >= 2
    /\ tool_calls[1].result = UnknownToolError(tool_calls[1].tool)
    /\ tool_calls[2].tool = "search_web"
    /\ DOMAIN tool_calls[2].result # {"error"}

\* ------------------------------------------------------------------------
\* When a response is a tool call
\* ------------------------------------------------------------------------

\* the marker TOOL: in any letter case
AnyCaseToolMarkers == {"TOOL:", "tool:"}

\* the tokens that begin with a word character
WordStarts == Words \cup {"TOOL:", "tool:", "ARGS:", "args:"}

\* the places of a marker that is followed, after white space only, by a
\* word character
Occurrences(r) ==
    {i \in 1..Len(r) :
        /\ r[i] \in AnyCaseToolMarkers
        /\ \E j \in (i + 1)..Len(r) :
              /\ r[j] \in WordStarts
              /\ \A k \in (i + 1)..(j - 1) : r[k] \in {" ", "\n"}}

\* C31: a response is treated as a tool call exactly when it contains,
\* anywhere and in any letter case, the marker TOOL: followed after optional
\* white space, line breaks included, by a word character.
C31_ToolCallIffMarkerAndWord ==
    parsed # <<>> => (parsed[1] # NoToolCall <=> Occurrences(text) # {})

\* a response whose only marker with a word after it is in lower case, in
\* the middle of a line, with the word on the next line, is a tool call
C31_Witness ==
    /\ parsed # <<>>
    /\ parsed[1].found
    /\ Occurrences(text) # {}
    /\ \A i \in Occurrences(text) :
          /\ text[i] = "tool:"
          /\ i > 1 /\ text[i - 1] = " "
          /\ text[i + 1] = "\n"

\* ------------------------------------------------------------------------
\* The history of a BaseAgent
\* ------------------------------------------------------------------------

\* no call of BaseAgent.process is under way
NoCallUnderWay == \A c \in DOMAIN base_calls : base_calls[c].pc # "awaiting"

\* user, assistant, user, assistant, ... from the first entry on
Alternates(h) ==
    /\ Len(h) % 2 = 0
    /\ \A i \in 1..Len(h) :
          h[i].role = (IF i % 2 = 1 THEN "user" ELSE "assistant")

\* entry i is the response some call received for the entry before it
AnswersEntryBefore(h, i) ==
    /\ i > 1
    /\ \E c \in DOMAIN base_calls :
          /\ base_calls[c].pc = "returned"
          /\ base_calls[c].message = h[i - 1].content
          /\ base_calls[c].response = h[i].content

\* C32: after any sequence of calls of BaseAgent.process on one agent,
\* failing and overlapping calls included, the history alternates user,
\* assistant from a user entry on, and every assistant entry is the
\* response to the user entry just before it.
C32_HistoryAlternates ==
    NoCallUnderWay =>
        /\ Alternates(_conversation_history)
        /\ \A i \in 1..Len(_conversation_history) :
              _conversation_history[i].role = "assistant" =>
                  AnswersEntryBefore(_conversation_history, i)

\* ------------------------------------------------------------------------
\* Sessions and their expiry
\* ------------------------------------------------------------------------

\* the last activity of the session lies more than the timeout before t
Expired(session, t) == t - session.last_activity > 24

\* the id asked for names a session of the store before the call
Stored(call) == call.requested \in DOMAIN call.before

\* the session the call asked for, as it was before the call
Asked(call) == call.before[call.requested]

\* C33: get_session never returns an expired session.  A session whose
\* last activity is more than 24 hours back yields None and is removed by
\* the call; a removed session is never returned again; a session that is
\* not expired is returned unchanged and stays in the store.
C33_ExpiredNeverReturned ==
    /\ last_call.op = "get_session" =>
          /\ \A i \in 1..Len(last_call.returned) :
                ~Expired(last_call.returned[i], last_call.at)
          /\ (Stored(last_call) /\ Expired(Asked(last_call), last_call.at)) =>
                /\ last_call.returned = <<>>
                /\ last_call.after =
                      [i \in DOMAIN last_call.before \ {last_call.requested}
                          |-> last_call.before[i]]
                /\ last_call.requested \in removed
          /\ (Stored(last_call) /\ ~Expired(Asked(last_call), last_call.at)) =>
                /\ last_call.returned = <<Asked(last_call)>>
                /\ last_call.after = last_call.before
    /\ \A i \in 1..Len(last_call.returned) :
          last_call.returned[i].session_id \notin removed
    /\ DOMAIN _sessions \cap removed = {}

\* a session with a message, idle for exactly the timeout, has been
\* returned as it was, and another one, idle for longer, has been removed
C33_Witness ==
    /\ last_call.op = "get_session"
    /\ Stored(last_call)
    /\ last_call.at - Asked(last_call).last_activity = 24
    /\ Asked(last_call).messages # <<>>
    /\ last_call.returned = <<Asked(last_call)>>
    /\ removed # {}

\* ------------------------------------------------------------------------
\* get_or_create_session
\* ------------------------------------------------------------------------

\* the sessions of the store before the call that are not the one asked for
Others(call) == DOMAIN call.before \ {call.requested}

\* C34: get_or_create_session returns the existing session and leaves the
\* store unchanged when the id names a stored session that is not expired;
\* otherwise it adds and returns a new empty session whose id is new and is
\* not the id asked for, so that the messages of an expired session are not
\* seen through the new one.
C34_ExistingOrFresh ==
    last_call.op = "get_or_create_session" =>
        IF Stored(last_call) /\ ~Expired(Asked(last_call), last_call.at)
        THEN /\ last_call.returned = <<Asked(last_call)>>
             /\ last_call.after = last_call.before
        ELSE /\ Len(last_call.returned) = 1
             /\ last_call.returned[1].messages = <<>>
             /\ last_call.returned[1].session_id # last_call.requested
             /\ last_call.returned[1].session_id \notin DOMAIN last_call.before
             /\ last_call.returned[1].session_id \notin removed
             /\ last_call.returned[1].session_id \in DOMAIN last_call.after
             /\ last_call.after[last_call.returned[1].session_id] =
                   last_call.returned[1]
             /\ \A i \in Others(last_call) :
                   /\ i \in DOMAIN last_call.after
                   /\ last_call.after[i] = last_call.before[i]
             /\ \A i \in DOMAIN last_call.after :
                   last_call.after[i].messages # <<>> => i \in Others(last_call)

\* the id asked for named an expired session that held a message; the call
\* returned a new, empty session under another id
C34_Witness ==
    /\ last_call.op = "get_or_create_session"
    /\ Stored(last_call)
    /\ Expired(Asked(last_call), last_call.at)
    /\ Asked(last_call).messages # <<>>
    /\ Len(last_call.returned) = 1
    /\ last_call.returned[1].session_id # last_call.requested
    /\ last_call.returned[1].messages = <<>>

\* ------------------------------------------------------------------------
\* The messages the chat endpoint stores
\* ------------------------------------------------------------------------

\* no chat request on the session is waiting for its planner
NoChatUnderWay(session_id) ==
    \A c \in DOMAIN chats :
        chats[c].session_id = session_id => chats[c].pc # "planning"

\* C35: after any sequence of chat requests on a valid session, those
\* answered with status 500 included, the stored messages of the session
\* alternate user, assistant: a user message is stored only together with
\* the reply produced for it.
C35_MessagesAlternate ==
    \A i \in DOMAIN _sessions :
        NoChatUnderWay(i) => Alternates(_sessions[i].messages)

\* ------------------------------------------------------------------------
\* The LLM client
\* ------------------------------------------------------------------------

\* the threads whose call of get_client has returned
Served == {t \in Threads : threads[t].pc = "done"}

\* C36: get_client returns one and the same client to every caller, also
\* when the first calls are concurrent: at most one client is ever created.
C36_OneClient ==
    /\ instances <= 1
    /\ \A t, u \in Served : threads[t].got = threads[u].got

====
